---- MODULE Spec2Model ----
(***************************************************************************)
(* The machine-learning scripts of the repository as single-shot process   *)
(* runs over a shared Model Store (the filesystem):                        *)
(*   scripts/ml/train_model.py, scripts/ml/evaluate_model.py,              *)
(*   scripts/ml/predict.py and scripts/ml_training.py.                     *)
(* A run is one process: it has a program counter, its locals, what it has *)
(* written to standard output and, once it has ended, an exit code.        *)
(***************************************************************************)
EXTENDS Integers, Sequences, FiniteSets, TLC

\* Number of process runs in one behaviour (they may overlap in time).
MaxRuns == 2

Runs == 1..MaxRuns

\* Exit codes of a Python process: a normal return, an uncaught exception,
\* argparse's usage error.
ExitOk == 0
ExitUncaught == 1
ExitUsage == 2

\* ---------------------------------------------------------------- inputs

\* Paths a caller passes as the model file (sys.argv[2] of train_model.py,
\* sys.argv[1] of evaluate_model.py and predict.py).
ModelPaths == {"model_a.joblib", "model_b.joblib"}

\* model_dir of save_models and the artifact files it writes there.
ArchetypePath == "ai-ml-data/models/archetype_classifier.joblib"
ArchetypeScalerPath == "ai-ml-data/models/archetype_classifier_scaler.joblib"
ContentPath == "ai-ml-data/models/content_optimizer.joblib"
ContentScalerPath == "ai-ml-data/models/content_optimizer_scaler.joblib"

PipelinePaths == {ArchetypePath, ArchetypeScalerPath, ContentPath, ContentScalerPath}

Paths == ModelPaths \cup PipelinePaths

\* config['features'] and config['targetVariable'] of a training request.
Features == {"f1", "f2"}
TargetVariable == "target"

\* The key sets of the records of a data file: a complete record, one that
\* lacks feature f1, one that lacks the target column.
FullRecord == {"f1", "f2", "target"}
RecordShapes == {FullRecord, {"f2", "target"}, {"f1", "f2"}}

\* A data set is given by the key sets that occur among its records.
DataSets == (SUBSET RecordShapes) \ {{}}

\* config['algorithm'] as a caller may give it.
KnownAlgorithms == {"random_forest", "gradient_boosting", "logistic_regression", "neural_network"}
Algorithms == KnownAlgorithms \cup {"quantum_svm"}

\* ------------------------------------------------------------- artifacts

NoArtifact == [kind |-> "none", by |-> 0]

\* A fitted estimator (or scaler) object: its class and the run that fit it.
Fitted(kind, r) == [kind |-> kind, by |-> r]

\* A model file that an earlier training run left in the Model Store.
Preexisting == Fitted("RandomForestClassifier", 0)
PreexistingPath == "model_a.joblib"

NoJson == [type |-> "none"]

VARIABLES
  store,       \* the Model Store: path -> artifact held there (NoArtifact: no file)
  dirExists,   \* whether the directory ai-ml-data/models exists
  run,         \* run -> the state of that process
  lastWriter,  \* path -> the run whose write to the path happened last (0: none)
  overlapped,  \* paths for which two training runs were active at the same time
  \* one training request followed through its data (second part of the module)
  request,     \* the training request: labels, feature names, target column, algorithm
  train,       \* invocation -> the locals of that train_model.py / trainer invocation
  modelFile,   \* the estimator object the last successful joblib.dump left at sys.argv[2]
  evaluate,    \* the locals of the evaluate_model.py invocation
  predict,     \* the locals of the predict.py invocation
  \* one neuron client and the federation it talks to (third part of the module)
  client,      \* the fields of the client object: token, session header, is_registered
  sent,        \* the HTTP requests the client has sent, in order
  proc,        \* the process_command call in progress: position, locals; the ids of
               \* the commands whose call has returned
  \* one started neuron and its background threads (fourth part of the module)
  node,        \* the main thread of the started neuron: position, running flag, counters
  threads,     \* loop -> the state of that background thread
  now,         \* the time, in units of five seconds
  wire         \* the request the started neuron sent last

mlVars == <<store, dirExists, run, lastWriter, overlapped>>
dataVars == <<request, train, modelFile, evaluate, predict>>
neuronVars == <<client, sent, proc>>
loopVars == <<node, threads, now, wire>>
otherVars == <<dataVars, neuronVars, loopVars>>
vars == <<mlVars, otherVars>>

\* EmpireMLTrainer.__init__: self.results
InitialResults ==
  [patterns_discovered |-> 0, cross_neuron_learnings |-> 0, improvement_opportunities |-> 0,
   archetype_insights |-> 0, content_optimizations |-> 0, models_updated |-> <<>>,
   accuracy |-> 0]

\* training_data['metadata'] as discover_patterns and extract_content_features
\* see it: whether the key holds a list of neuron records, how many, how many
\* of the three patterns they show and how many distinct verticals.
NoMetadata == [present |-> FALSE, len |-> 0, patterns |-> 0, verticals |-> 0]

IdleRun ==
  [script |-> "none", pc |-> "idle", path |-> "-", exit |-> -1,
   stdout |-> <<>>, printed |-> NoJson,
   \* locals of train_model / evaluate_model / predict
   data |-> {}, alg |-> "-", nan |-> {}, model |-> NoArtifact,
   \* locals of ml_training.main and the EmpireMLTrainer instance
   modelsArg |-> "-", metadata |-> NoMetadata, models |-> <<>>, scalers |-> {},
   results |-> InitialResults, i |-> 0,
   \* what happened during the run (observations, not program state)
   missing |-> FALSE, failure |-> "none", stageFailed |-> {}, wrote |-> {},
   writeFailed |-> {}, absentAtLoad |-> FALSE, dataRead |-> FALSE,
   unknownAlg |-> FALSE]

\* ------------------------------------------- values of the data-level part

\* No training request is being followed.
NoRequest == [script |-> "none"]

\* No estimator object.
NoModel == [kind |-> "none"]

\* The invocations of the trainer on one request.
Invocations == {1, 2}

\* A mapping without entries (the dict {}).
EmptyMapping == [name \in {} |-> 0]

IdleTrain ==
  [pc |-> "idle", X_train |-> {}, X_test |-> {}, handed |-> <<>>,
   model |-> NoModel, scaler |-> {}, y_pred |-> EmptyMapping,
   cvRead |-> {}, cv_mean |-> [sum |-> 0, of |-> 1], results |-> NoJson, failure |-> "none",
   \* observation: the estimator as model.fit left it
   fitted |-> NoModel]

IdleEvaluate ==
  [pc |-> "idle", model |-> NoModel, rows |-> {}, feature_names |-> <<>>,
   handed |-> <<>>, y_pred |-> EmptyMapping, results |-> NoJson, failure |-> "none"]

IdlePredict ==
  [pc |-> "idle", model |-> NoModel, keys |-> <<>>, feature_names |-> <<>>,
   handed |-> <<>>, results |-> NoJson, failure |-> "none"]

\* The process runs over the Model Store before any process has started.
MlInit ==
  /\ store = [p \in Paths |-> IF p = PreexistingPath THEN Preexisting ELSE NoArtifact]
  /\ dirExists = FALSE
  /\ run = [r \in Runs |-> IdleRun]
  /\ lastWriter = [p \in Paths |-> 0]
  /\ overlapped = {}

\* The data-level part at rest.
DataIdle ==
  /\ request = NoRequest
  /\ train = [i \in Invocations |-> IdleTrain]
  /\ modelFile = NoModel
  /\ evaluate = IdleEvaluate
  /\ predict = IdlePredict

\* No answer to a registration yet.
NoAnswer == [status |-> -1, token |-> 0, instructions |-> FALSE]

\* No client object yet, no token (0), no Authorization header (0).
NoClient ==
  [kind |-> "none", logInfo |-> FALSE, built |-> FALSE, token |-> 0, header |-> 0,
   is_registered |-> FALSE, signalled |-> FALSE, failure |-> "none",
   answer |-> NoAnswer]

NoCommand == [id |-> 0, type |-> "-", data |-> "-"]

IdleProc ==
  [pc |-> "idle", command |-> NoCommand, count |-> 0, acked |-> FALSE,
   success |-> FALSE, error |-> "-", failure |-> "none", ended |-> {}]

NeuronIdle ==
  /\ client = NoClient
  /\ sent = <<>>
  /\ proc = IdleProc

\* The two loops every client runs, and the command loop.
Loops == {"heartbeat", "command", "analytics"}

\* No neuron started: no thread object, the counters of __init__ (0).
NoNode ==
  [kind |-> "none", pc |-> "new", running |-> FALSE, returned |-> FALSE,
   attempts |-> 0, request_count |-> 0, successful_requests |-> 0,
   failed_requests |-> 0, joined |-> 0, joinFrom |-> 0]

NoThread == [pc |-> "none", wake |-> 0]

\* No request sent yet.
NoPost ==
  [endpoint |-> "-", from |-> "-", outcome |-> "-", total |-> 0, successful |-> 0,
   failed |-> 0]

LoopIdle ==
  /\ node = NoNode
  /\ threads = [t \in Loops |-> NoThread]
  /\ now = 0
  /\ wire = NoPost

Init == MlInit /\ DataIdle /\ NeuronIdle /\ LoopIdle

Active(r) == run[r].pc \notin {"idle", "done"}

Scripts == {"train_model", "evaluate_model", "predict", "ml_training"}
TrainingScripts == {"train_model", "ml_training"}

\* The paths a training run of the script writes to.
Targets(script, path) ==
  IF script = "train_model" THEN {path}
  ELSE IF script = "ml_training" THEN PipelinePaths
  ELSE {}

FirstPc(script) ==
  CASE script = "train_model" -> "load"
    [] script = "evaluate_model" -> "load_model"
    [] script = "predict" -> "load_model"
    [] script = "ml_training" -> "parse"

\* A caller starts a process; runs are numbered in the order they start.
Start(r) ==
  /\ run[r].pc = "idle"
  /\ \A q \in Runs : q < r => run[q].pc # "idle"
  /\ \E script \in Scripts, path \in ModelPaths :
       /\ run' = [run EXCEPT ![r].script = script, ![r].pc = FirstPc(script),
                             ![r].path = IF script = "ml_training" THEN "-" ELSE path]
       /\ overlapped' = overlapped \cup
            UNION {Targets(script, path) \cap Targets(run[q].script, run[q].path) :
                     q \in {q \in Runs : Active(q) /\ run[q].script \in TrainingScripts}}
  /\ UNCHANGED <<store, dirExists, lastWriter, otherVars>>

\* Faulty variant of Uncaught: a top-level handler that prints an error object and
\* lets the process end normally.
Uncaught_Swallowed(s, error) ==
  [s EXCEPT !.pc = "done", !.exit = ExitOk, !.failure = error,
            !.stdout = Append(@, "json"), !.printed = [type |-> "results", error |-> TRUE],
            !.data = {}, !.alg = "-", !.nan = {}, !.model = NoArtifact]

\* An exception nothing catches: the interpreter prints the traceback to
\* standard error and the process ends with exit code 1; locals are gone.
Uncaught(s, error) ==
  [s EXCEPT !.pc = "done", !.exit = ExitUncaught, !.failure = error,
            !.data = {}, !.alg = "-", !.nan = {}, !.model = NoArtifact]

\* The process returns from its entry point and ends with exit code 0.
Returned(s) ==
  [s EXCEPT !.pc = "done", !.exit = ExitOk, !.data = {}, !.alg = "-", !.nan = {},
            !.model = NoArtifact, !.modelsArg = "-", !.metadata = NoMetadata,
            !.models = <<>>, !.scalers = {}, !.results = InitialResults, !.i = 0]

\* Faulty variant of JoblibDump: a file that exists is left as it is.
JoblibDump_KeepExisting(st, path, obj) ==
  IF st[path] = NoArtifact THEN [st EXCEPT ![path] = obj] ELSE st

\* joblib.dump(obj, path): the file at path holds obj afterwards.
JoblibDump(st, path, obj) == [st EXCEPT ![path] = obj]

\* ------------------------------------------------------ pandas, sklearn

\* pd.DataFrame(records).columns: the union of the records' keys.
Columns(data) == UNION data

\* The columns in which pd.DataFrame(records) holds NaN: a key that some
\* record has and another lacks.
NaNColumns(data) == {c \in Columns(data) : \E rec \in data : c \notin rec}

\* Whether some record lacks one of the required keys.
LacksKey(data, required) == \E rec \in data : ~(required \subseteq rec)

\* Faulty variant of EstimatorFor: the else branch builds another estimator.
EstimatorFor_NoDefault(alg) ==
  CASE alg = "random_forest" -> "RandomForestClassifier"
    [] alg = "gradient_boosting" -> "GradientBoostingClassifier"
    [] alg = "logistic_regression" -> "LogisticRegression"
    [] alg = "neural_network" -> "MLPClassifier"
    [] OTHER -> "GradientBoostingClassifier"

\* Lines 35-44 of train_model.py: the estimator class for config['algorithm'].
EstimatorFor(alg) ==
  CASE alg = "random_forest" -> "RandomForestClassifier"
    [] alg = "gradient_boosting" -> "GradientBoostingClassifier"
    [] alg = "logistic_regression" -> "LogisticRegression"
    [] alg = "neural_network" -> "MLPClassifier"
    [] OTHER -> "RandomForestClassifier"

\* Whether the constructor call of lines 35-44 passes **hyperparameters.
PassesHyperparameters(alg) == alg \in KnownAlgorithms

\* ------------------------------------------------------- train_model.py

\* Lines 15-20: open and parse the training file, read its keys, parse argv[3].
TrainLoad(r) ==
  /\ run[r].script = "train_model" /\ run[r].pc = "load"
  /\ \/ \E error \in {"FileNotFoundError", "JSONDecodeError", "KeyError"} :
          run' = [run EXCEPT ![r] = Uncaught(@, error)]
     \/ \E data \in DataSets :
          run' = [run EXCEPT ![r].pc = "frame", ![r].data = data, ![r].dataRead = TRUE]
  /\ UNCHANGED <<store, dirExists, lastWriter, overlapped, otherVars>>

\* Lines 23-32: DataFrame, column selection, train/test split.
TrainFrame(r) ==
  /\ run[r].script = "train_model" /\ run[r].pc = "frame"
  /\ LET data == run[r].data
         required == Features \cup {TargetVariable}
         s == [run[r] EXCEPT !.missing = LacksKey(data, required)]
     IN IF ~(required \subseteq Columns(data))
        THEN run' = [run EXCEPT ![r] = Uncaught(s, "KeyError")]
        ELSE run' = [run EXCEPT ![r] =
                       [s EXCEPT !.pc = "init", !.data = {},
                                 !.nan = {"X" : c \in NaNColumns(data) \cap Features}
                                         \cup {"y" : c \in NaNColumns(data) \cap {TargetVariable}}]]
  /\ UNCHANGED <<store, dirExists, lastWriter, overlapped, otherVars>>

\* Lines 35-44: instantiate the estimator.
TrainInit(r) ==
  /\ run[r].script = "train_model" /\ run[r].pc = "init"
  /\ \E alg \in Algorithms, kwargsOk \in BOOLEAN :
       LET s == [run[r] EXCEPT !.alg = alg, !.unknownAlg = alg \notin KnownAlgorithms]
       IN IF PassesHyperparameters(alg) /\ ~kwargsOk
          THEN run' = [run EXCEPT ![r] = Uncaught(s, "TypeError")]
          ELSE run' = [run EXCEPT ![r] =
                         [s EXCEPT !.pc = "fit",
                                   !.model = [kind |-> EstimatorFor(alg), by |-> 0]]]
  /\ UNCHANGED <<store, dirExists, lastWriter, overlapped, otherVars>>

\* Whether an estimator of the class may accept NaN in X (RandomForest does
\* from scikit-learn 1.4 on; the version is not pinned).
MayAcceptNaN(kind) == kind = "RandomForestClassifier"

\* Line 47: model.fit(X_train, y_train).
TrainFit(r) ==
  /\ run[r].script = "train_model" /\ run[r].pc = "fit"
  /\ LET kind == run[r].model.kind
     IN \E ok \in BOOLEAN :
          IF /\ ok
             /\ "y" \notin run[r].nan
             /\ ("X" \in run[r].nan => MayAcceptNaN(kind))
          THEN run' = [run EXCEPT ![r].pc = "evaluate", ![r].model = Fitted(kind, r)]
          ELSE run' = [run EXCEPT ![r] = Uncaught(@, "ValueError")]
  /\ UNCHANGED <<store, dirExists, lastWriter, overlapped, otherVars>>

\* Lines 50-65: predict on the test partition, metrics, cross-validation,
\* feature importances.
TrainEvaluate(r) ==
  /\ run[r].script = "train_model" /\ run[r].pc = "evaluate"
  /\ \E ok \in BOOLEAN :
       IF ok
       THEN run' = [run EXCEPT ![r].pc = "dump"]
       ELSE run' = [run EXCEPT ![r] = Uncaught(@, "ValueError")]
  /\ UNCHANGED <<store, dirExists, lastWriter, overlapped, otherVars>>

\* Faulty variant of TrainDump: the model is written as soon as it is fit,
\* before the metrics and the cross-validation.
TrainDump_BeforeMetrics(r) ==
  /\ run[r].script = "train_model" /\ run[r].pc = "evaluate"
  /\ store' = JoblibDump(store, run[r].path, run[r].model)
  /\ lastWriter' = [lastWriter EXCEPT ![run[r].path] = r]
  /\ run' = [run EXCEPT ![r].pc = "print", ![r].wrote = @ \cup {run[r].path}]
  /\ UNCHANGED <<dirExists, overlapped, otherVars>>

\* Line 68: joblib.dump(model, sys.argv[2]).
TrainDump(r) ==
  /\ run[r].script = "train_model" /\ run[r].pc = "dump"
  /\ \E ok \in BOOLEAN :
       IF ok
       THEN /\ store' = JoblibDump(store, run[r].path, run[r].model)
            /\ lastWriter' = [lastWriter EXCEPT ![run[r].path] = r]
            /\ run' = [run EXCEPT ![r].pc = "print", ![r].wrote = @ \cup {run[r].path}]
       ELSE /\ run' = [run EXCEPT ![r] =
                         Uncaught([@ EXCEPT !.writeFailed = @ \cup {run[r].path}], "OSError")]
            /\ UNCHANGED <<store, lastWriter>>
  /\ UNCHANGED <<dirExists, overlapped, otherVars>>

\* Faulty variant of TrainPrint: the metrics printed are those of the model file as
\* it is at the time of printing.
TrainPrint_StoredModel(r) ==
  /\ run[r].script = "train_model" /\ run[r].pc = "print"
  /\ run' = [run EXCEPT ![r] =
               Returned([@ EXCEPT !.stdout = Append(@, "json"),
                                  !.printed = [type |-> "metrics",
                                               model |-> store[run[r].path]]])]
  /\ UNCHANGED <<store, dirExists, lastWriter, overlapped, otherVars>>

\* Lines 71-81: print(json.dumps(results)); the metrics are those of the
\* run's own model object.
TrainPrint(r) ==
  /\ run[r].script = "train_model" /\ run[r].pc = "print"
  /\ run' = [run EXCEPT ![r] =
               Returned([@ EXCEPT !.stdout = Append(@, "json"),
                                  !.printed = [type |-> "metrics", model |-> run[r].model]])]
  /\ UNCHANGED <<store, dirExists, lastWriter, overlapped, otherVars>>

\* ---------------------------------------------------- evaluate_model.py

\* Faulty variant of JoblibLoad: a missing file yields a default model.
JoblibLoad_Default(st, path) == IF st[path] = NoArtifact THEN Preexisting ELSE st[path]

\* Line 11 (and predict.py line 10): model = joblib.load(sys.argv[1]).
JoblibLoad(st, path) == st[path]

EvalLoadModel(r) ==
  /\ run[r].script = "evaluate_model" /\ run[r].pc = "load_model"
  /\ LET obj == JoblibLoad(store, run[r].path)
     IN IF obj = NoArtifact
        THEN run' = [run EXCEPT ![r] =
                       Uncaught([@ EXCEPT !.absentAtLoad = TRUE], "FileNotFoundError")]
        ELSE run' = [run EXCEPT ![r].pc = "load_data", ![r].model = obj]
  /\ UNCHANGED <<store, dirExists, lastWriter, overlapped, otherVars>>

\* Lines 14-17: open and parse the evaluation data file, parse argv[3].
EvalLoadData(r) ==
  /\ run[r].script = "evaluate_model" /\ run[r].pc = "load_data"
  /\ \/ \E error \in {"FileNotFoundError", "JSONDecodeError"} :
          run' = [run EXCEPT ![r] = Uncaught([@ EXCEPT !.dataRead = TRUE], error)]
     \/ \E data \in DataSets :
          run' = [run EXCEPT ![r].pc = "frame", ![r].data = data, ![r].dataRead = TRUE]
  /\ UNCHANGED <<store, dirExists, lastWriter, overlapped, otherVars>>

\* Line 23: the label column evaluate_model.py reads.
EvalTargetColumn == "target"

\* Lines 20-23: DataFrame, X = df[feature_names], y = df['target'].
EvalFrame(r) ==
  /\ run[r].script = "evaluate_model" /\ run[r].pc = "frame"
  /\ LET data == run[r].data
         required == Features \cup {EvalTargetColumn}
         s == [run[r] EXCEPT !.missing = LacksKey(data, required)]
     IN IF ~(required \subseteq Columns(data))
        THEN run' = [run EXCEPT ![r] = Uncaught(s, "KeyError")]
        ELSE run' = [run EXCEPT ![r] =
                       [s EXCEPT !.pc = "score", !.data = {},
                                 !.nan = {"X" : c \in NaNColumns(data) \cap Features}
                                         \cup {"y" : c \in NaNColumns(data) \cap {EvalTargetColumn}}]]
  /\ UNCHANGED <<store, dirExists, lastWriter, overlapped, otherVars>>

\* Lines 26-38: model.predict(X), the metrics, the feature importances.
EvalScore(r) ==
  /\ run[r].script = "evaluate_model" /\ run[r].pc = "score"
  /\ \E ok \in BOOLEAN :
       IF /\ ok
          /\ "y" \notin run[r].nan
          /\ ("X" \in run[r].nan => MayAcceptNaN(run[r].model.kind))
       THEN run' = [run EXCEPT ![r].pc = "print"]
       ELSE run' = [run EXCEPT ![r] = Uncaught(@, "ValueError")]
  /\ UNCHANGED <<store, dirExists, lastWriter, overlapped, otherVars>>

\* Faulty variant of EvalPrint: the evaluator writes a refreshed model file back.
EvalPrint_Persists(r) ==
  /\ run[r].script = "evaluate_model" /\ run[r].pc = "print"
  /\ run' = [run EXCEPT ![r] =
               Returned([@ EXCEPT !.stdout = Append(@, "json"),
                                  !.printed = [type |-> "metrics", model |-> run[r].model]])]
  /\ store' = [store EXCEPT ![run[r].path] = Fitted(run[r].model.kind, r)]
  /\ UNCHANGED <<dirExists, lastWriter, overlapped, otherVars>>

\* Lines 40-49: print(json.dumps(results)).
EvalPrint(r) ==
  /\ run[r].script = "evaluate_model" /\ run[r].pc = "print"
  /\ run' = [run EXCEPT ![r] =
               Returned([@ EXCEPT !.stdout = Append(@, "json"),
                                  !.printed = [type |-> "metrics", model |-> run[r].model]])]
  /\ UNCHANGED <<store, dirExists, lastWriter, overlapped, otherVars>>

\* ------------------------------------------------------------ predict.py

PredictLoadModel(r) ==
  /\ run[r].script = "predict" /\ run[r].pc = "load_model"
  /\ LET obj == JoblibLoad(store, run[r].path)
     IN IF obj = NoArtifact
        THEN run' = [run EXCEPT ![r] =
                       Uncaught([@ EXCEPT !.absentAtLoad = TRUE], "FileNotFoundError")]
        ELSE run' = [run EXCEPT ![r].pc = "inputs", ![r].model = obj]
  /\ UNCHANGED <<store, dirExists, lastWriter, overlapped, otherVars>>

\* Lines 13-17: parse the feature values and the feature names, one-row DataFrame.
PredictInputs(r) ==
  /\ run[r].script = "predict" /\ run[r].pc = "inputs"
  /\ \/ run' = [run EXCEPT ![r] = Uncaught(@, "JSONDecodeError")]
     \/ \E row \in {rec \cap Features : rec \in RecordShapes} :
          run' = [run EXCEPT ![r].pc = "score", ![r].data = {row},
                             ![r].missing = ~(Features \subseteq row)]
  /\ UNCHANGED <<store, dirExists, lastWriter, overlapped, otherVars>>

\* Lines 20-33: model.predict(df)[0], predict_proba, feature importances.
\* A row whose columns are not those the model was fit on is rejected.
PredictScore(r) ==
  /\ run[r].script = "predict" /\ run[r].pc = "score"
  /\ \E ok \in BOOLEAN :
       IF ok /\ Columns(run[r].data) = Features
       THEN run' = [run EXCEPT ![r].pc = "print", ![r].data = {}]
       ELSE run' = [run EXCEPT ![r] = Uncaught(@, "ValueError")]
  /\ UNCHANGED <<store, dirExists, lastWriter, overlapped, otherVars>>

\* Lines 35-42: print(json.dumps(results)).
PredictPrint(r) ==
  /\ run[r].script = "predict" /\ run[r].pc = "print"
  /\ run' = [run EXCEPT ![r] =
               Returned([@ EXCEPT !.stdout = Append(@, "json"),
                                  !.printed = [type |-> "prediction", model |-> run[r].model]])]
  /\ UNCHANGED <<store, dirExists, lastWriter, overlapped, otherVars>>

\* --------------------------------------------------------- ml_training.py

\* --models as a caller may give it (the default is 'all').
ModelsArgs == {"all", "archetype", "content"}

\* Line 186: 'archetype' in args.models or args.models == 'all'
SelectsArchetype(arg) == arg \in {"archetype", "all"}

\* Line 189: 'content' in args.models or args.models == 'all'
SelectsContent(arg) == arg \in {"content", "all"}

\* Batches of neuron records under training_data['metadata'].
MetadataCases ==
  {[present |-> TRUE, len |-> 0, patterns |-> 0, verticals |-> 0],
   [present |-> TRUE, len |-> 3, patterns |-> 2, verticals |-> 1],
   [present |-> TRUE, len |-> 12, patterns |-> 3, verticals |-> 6]}

\* training_data['features'] as train_archetype_classifier sees it.
FeatureCases == {"absent", "few", "enough"}

\* Distinct labels in training_data['labels'], and the test accuracy in percent.
ClassCounts == {2, 9}
AccuracyCases == {80}

Min(a, b) == IF a < b THEN a ELSE b
Max(a, b) == IF a > b THEN a ELSE b

MaxOf(S) == CHOOSE x \in S : \A y \in S : y <= x

\* Lines 200-210: the result main prints when an exception reaches it.
FallbackResults ==
  [patterns_discovered |-> 12, cross_neuron_learnings |-> 4, improvement_opportunities |-> 7,
   archetype_insights |-> 3, content_optimizations |-> 9,
   models_updated |-> <<"archetype-classifier">>, accuracy |-> 82]

\* Lines 198-211: main's handler prints the fallback and main returns.
MainHandler(s, error) ==
  Returned([s EXCEPT !.failure = error, !.stdout = Append(@, "json"),
                     !.printed = [type |-> "results", error |-> TRUE, body |-> FallbackResults]])

\* Lines 171-181: parse the arguments and the --data JSON, build the trainer.
MltParse(r) ==
  /\ run[r].script = "ml_training" /\ run[r].pc = "parse"
  /\ \/ run' = [run EXCEPT ![r] = [@ EXCEPT !.pc = "done", !.exit = ExitUsage,
                                            !.failure = "SystemExit"]]
     \/ run' = [run EXCEPT ![r] = MainHandler(@, "JSONDecodeError")]
     \/ \E arg \in ModelsArgs :
          run' = [run EXCEPT ![r].pc = "discover", ![r].modelsArg = arg,
                             ![r].results = InitialResults]
  /\ UNCHANGED <<store, dirExists, lastWriter, overlapped, otherVars>>

\* Faulty variant of DiscoverFailed: the failure propagates to main's handler.
DiscoverFailed_Propagates(s) ==
  MainHandler([s EXCEPT !.stageFailed = @ \cup {"discover_patterns"}], "KeyError")

\* Lines 146-150: discover_patterns' handler.
DiscoverFailed(s) ==
  [s EXCEPT !.stdout = Append(@, "Pattern discovery failed"),
            !.stageFailed = @ \cup {"discover_patterns"},
            !.results = [@ EXCEPT !.patterns_discovered = 8,
                                  !.cross_neuron_learnings = 3,
                                  !.improvement_opportunities = 5]]

\* Faulty variant of Discovered: the cross-neuron learnings are not capped.
Discovered_Uncapped(s, md) ==
  LET cross_learnings == md.verticals * 2
  IN [s EXCEPT !.stdout = Append(@, "Discovered patterns"),
               !.results = [@ EXCEPT !.patterns_discovered = md.patterns + cross_learnings,
                                     !.cross_neuron_learnings = cross_learnings,
                                     !.improvement_opportunities = Min(md.patterns, 12)]]

\* Lines 121-144: the counters discover_patterns sets.
Discovered(s, md) ==
  LET cross_learnings == Min(md.verticals * 2, 10)
  IN [s EXCEPT !.stdout = Append(@, "Discovered patterns"),
               !.results = [@ EXCEPT !.patterns_discovered = md.patterns + cross_learnings,
                                     !.cross_neuron_learnings = cross_learnings,
                                     !.improvement_opportunities = Min(md.patterns, 12)]]

\* Lines 186-193: the stage main runs after discover_patterns / after the
\* archetype stage.
AfterDiscover(arg) ==
  IF SelectsArchetype(arg) THEN "archetype"
  ELSE IF SelectsContent(arg) THEN "content" ELSE "save"

AfterArchetype(arg) == IF SelectsContent(arg) THEN "content" ELSE "save"

\* Line 184: trainer.discover_patterns(training_data).
MltDiscover(r) ==
  /\ run[r].script = "ml_training" /\ run[r].pc = "discover"
  /\ \E md \in MetadataCases \cup {NoMetadata} :
       LET s == [run[r] EXCEPT !.pc = AfterDiscover(run[r].modelsArg), !.metadata = md]
       IN run' = [run EXCEPT ![r] = IF md.present THEN Discovered(s, md) ELSE DiscoverFailed(s)]
  /\ UNCHANGED <<store, dirExists, lastWriter, overlapped, otherVars>>

\* Lines 70-72: train_archetype_classifier's handler.
ArchetypeFailed(s) ==
  [s EXCEPT !.stdout = Append(@, "Archetype training failed"),
            !.stageFailed = @ \cup {"train_archetype_classifier"},
            !.results = [@ EXCEPT !.archetype_insights = 1]]

\* Lines 61-68: store the model and the scaler, update the results.
ArchetypeTrained(s, r, accuracy, classes) ==
  [s EXCEPT !.stdout = Append(@, "Archetype classifier trained"),
            !.models = Append(@, "archetype_classifier"),
            !.scalers = @ \cup {"archetype_classifier"},
            !.results = [@ EXCEPT !.models_updated = Append(@, "archetype-classifier"),
                                  !.accuracy = Max(@, accuracy),
                                  !.archetype_insights = Min(classes, 8)]]

\* Line 187: trainer.train_archetype_classifier(training_data).
MltArchetype(r) ==
  /\ run[r].script = "ml_training" /\ run[r].pc = "archetype"
  /\ LET s == [run[r] EXCEPT !.pc = AfterArchetype(run[r].modelsArg)]
     IN \E features \in FeatureCases :
          CASE features = "absent" -> run' = [run EXCEPT ![r] = ArchetypeFailed(s)]
            [] features = "few" ->
                 run' = [run EXCEPT ![r] = [s EXCEPT !.results.archetype_insights = 2]]
            [] features = "enough" ->
                 \E ok \in BOOLEAN, accuracy \in AccuracyCases, classes \in ClassCounts :
                   run' = [run EXCEPT ![r] =
                             IF ok THEN ArchetypeTrained(s, r, accuracy, classes)
                             ELSE ArchetypeFailed(s)]
  /\ UNCHANGED <<store, dirExists, lastWriter, overlapped, otherVars>>

\* Lines 99-101: train_content_optimizer's handler.
ContentFailed(s) ==
  [s EXCEPT !.stdout = Append(@, "Content training failed"),
            !.stageFailed = @ \cup {"train_content_optimizer"},
            !.results = [@ EXCEPT !.content_optimizations = 5]]

\* Lines 91-97: fit, store the model, update the results.
ContentTrained(s, pieces) ==
  [s EXCEPT !.stdout = Append(@, "Content optimizer trained"),
            !.models = Append(@, "content_optimizer"),
            !.results = [@ EXCEPT !.models_updated = Append(@, "content-optimizer"),
                                  !.content_optimizations = Min(pieces, 15)]]

\* Line 106: training_data['metadata'][:10]
ContentPieces(md) == Min(md.len, 10)

\* Line 190: trainer.train_content_optimizer(training_data).
MltContent(r) ==
  /\ run[r].script = "ml_training" /\ run[r].pc = "content"
  /\ LET md == run[r].metadata
         s == [run[r] EXCEPT !.pc = "save"]
     IN IF ~md.present
        THEN run' = [run EXCEPT ![r] = ContentFailed(s)]
        ELSE IF ContentPieces(md) < 5
        THEN run' = [run EXCEPT ![r] = [s EXCEPT !.results.content_optimizations = 3]]
        ELSE \E ok \in BOOLEAN :
               run' = [run EXCEPT ![r] =
                         IF ok THEN ContentTrained(s, ContentPieces(md)) ELSE ContentFailed(s)]
  /\ UNCHANGED <<store, dirExists, lastWriter, overlapped, otherVars>>

\* Lines 158 and 161: the artifact paths of a model name.
ModelPath(name) == IF name = "archetype_classifier" THEN ArchetypePath ELSE ContentPath
ScalerPath(name) == IF name = "archetype_classifier" THEN ArchetypeScalerPath ELSE ContentScalerPath

\* Faulty variant of HasScaler: a scaler file is written for every model.
HasScaler_Always(s, name) == TRUE

\* Line 162: if name in self.scalers
HasScaler(s, name) == name \in s.scalers

\* Lines 167-168: save_models' handler; save_models returns normally.
SaveFailed(s) ==
  [s EXCEPT !.pc = "results", !.i = 0,
            !.stdout = Append(@, "Model saving failed"),
            !.stageFailed = @ \cup {"save_models"}]

\* Line 165: the loop is over, save_models reports and returns.
SaveDone(s) == [s EXCEPT !.pc = "results", !.i = 0, !.stdout = Append(@, "Saved models")]

\* Line 157: the next iteration of the loop over self.models, or its end.
SaveNext(s, i) ==
  IF i <= Len(s.models) THEN [s EXCEPT !.pc = "save_model", !.i = i] ELSE SaveDone(s)

\* Line 155: os.makedirs(model_dir, exist_ok=True).
MltSaveMakedirs(r) ==
  /\ run[r].script = "ml_training" /\ run[r].pc = "save"
  /\ \E ok \in BOOLEAN :
       IF ok
       THEN /\ dirExists' = TRUE
            /\ run' = [run EXCEPT ![r] = SaveNext(@, 1)]
       ELSE /\ run' = [run EXCEPT ![r] = SaveFailed(@)]
            /\ UNCHANGED dirExists
  /\ UNCHANGED <<store, lastWriter, overlapped, otherVars>>

\* Lines 158-159: joblib.dump(model, model_path).
MltSaveModel(r) ==
  /\ run[r].script = "ml_training" /\ run[r].pc = "save_model"
  /\ LET name == run[r].models[run[r].i]
         path == ModelPath(name)
     IN \E ok \in BOOLEAN :
          IF ok /\ dirExists
          THEN /\ store' = JoblibDump(store, path, Fitted(name, r))
               /\ lastWriter' = [lastWriter EXCEPT ![path] = r]
               /\ run' = [run EXCEPT ![r] =
                            [(IF HasScaler(run[r], name)
                              THEN [@ EXCEPT !.pc = "save_scaler"]
                              ELSE SaveNext(@, run[r].i + 1))
                             EXCEPT !.wrote = @ \cup {path}]]
          ELSE /\ run' = [run EXCEPT ![r] = SaveFailed([@ EXCEPT !.writeFailed = @ \cup {path}])]
               /\ UNCHANGED <<store, lastWriter>>
  /\ UNCHANGED <<dirExists, overlapped, otherVars>>

\* Lines 161-163: joblib.dump(self.scalers[name], scaler_path).
MltSaveScaler(r) ==
  /\ run[r].script = "ml_training" /\ run[r].pc = "save_scaler"
  /\ LET name == run[r].models[run[r].i]
         path == ScalerPath(name)
     IN \E ok \in BOOLEAN :
          IF ok /\ dirExists
          THEN /\ store' = JoblibDump(store, path, Fitted("StandardScaler", r))
               /\ lastWriter' = [lastWriter EXCEPT ![path] = r]
               /\ run' = [run EXCEPT ![r] =
                            [SaveNext(@, run[r].i + 1) EXCEPT !.wrote = @ \cup {path}]]
          ELSE /\ run' = [run EXCEPT ![r] = SaveFailed([@ EXCEPT !.writeFailed = @ \cup {path}])]
               /\ UNCHANGED <<store, lastWriter>>
  /\ UNCHANGED <<dirExists, overlapped, otherVars>>

\* Line 196: print(json.dumps(trainer.results)); main returns.
MltPrint(r) ==
  /\ run[r].script = "ml_training" /\ run[r].pc = "results"
  /\ run' = [run EXCEPT ![r] =
               Returned([@ EXCEPT !.stdout = Append(@, "json"),
                                  !.printed = [type |-> "results", error |-> FALSE,
                                               body |-> run[r].results]])]
  /\ UNCHANGED <<store, dirExists, lastWriter, overlapped, otherVars>>

Next ==
  \E r \in Runs :
    \/ Start(r)
    \/ TrainLoad(r)
    \/ TrainFrame(r)
    \/ TrainInit(r)
    \/ TrainFit(r)
    \/ TrainEvaluate(r)
    \/ TrainDump(r)
    \/ TrainPrint(r)
    \/ EvalLoadModel(r)
    \/ EvalLoadData(r)
    \/ EvalFrame(r)
    \/ EvalScore(r)
    \/ EvalPrint(r)
    \/ PredictLoadModel(r)
    \/ PredictInputs(r)
    \/ PredictScore(r)
    \/ PredictPrint(r)
    \/ MltParse(r)
    \/ MltDiscover(r)
    \/ MltArchetype(r)
    \/ MltContent(r)
    \/ MltSaveMakedirs(r)
    \/ MltSaveModel(r)
    \/ MltSaveScaler(r)
    \/ MltPrint(r)

Spec == Init /\ [][Next]_vars

\* =================================================== one request, its data
(***************************************************************************)
(* The same scripts followed through the data of one training request: the *)
(* rows of the data set, the split, the estimator object and what each     *)
(* script prints.  An estimator is kept as what the scripts can observe of *)
(* it: its class, the columns and rows it was fit on, its prediction and   *)
(* class votes.  A fit predicts the majority label of the sample of rows   *)
(* it drew; an estimator with an unseeded random state draws that sample   *)
(* anew in every fit.                                                      *)
(***************************************************************************)

\* Rows of the data set of the request (data['data'], training_data['features']).
NRows == 10

Rows == 1..NRows

\* Class labels of the target column.
Labels == {0, 1}

\* train_test_split(..., test_size=0.2, random_state=42)
TestSizePercent == 20
RandomState == 42

\* cross_val_score(..., cv=5)
CvFolds == 5

\* Line 37 of ml_training.py: fewer feature rows than this are not trained on.
MinArchetypeRows == 10

\* The rows that carry label 0 in the data sets considered; the others carry 1.
ZeroSets == {{3, 4}, {1, 2, 5, 6}, {1, 3, 5, 6}}

LabelCases == {[i \in Rows |-> IF i \in Z THEN 0 ELSE 1] : Z \in ZeroSets}

\* config['features'] as an ordered list.
FeatureOrders == {<<"f1", "f2">>, <<"f2", "f1">>}

\* config['targetVariable'] as a request may name it.
TargetVariables == {"target", "label"}

\* config['algorithm'] of the requests considered.
RequestAlgorithms == {"random_forest", "logistic_regression"}

\* Requests to train_model.py: `seeded` says whether the hyperparameters of
\* argv[3] hold a random_state.
TrainModelRequests ==
  [script : {"train_model"}, y : LabelCases, features : FeatureOrders,
   target : TargetVariables, algorithm : RequestAlgorithms, seeded : BOOLEAN]

\* Requests to train_archetype_classifier: a numpy array of feature rows
\* (no column names), RandomForestClassifier(n_estimators=100, random_state=42).
ArchetypeRequests ==
  [script : {"ml_training"}, y : LabelCases, features : {<<>>},
   target : {"labels"}, algorithm : {"random_forest"}, seeded : {TRUE}]

RequestCases == TrainModelRequests \cup ArchetypeRequests

\* ---------------------------------------------------------------- the split

\* ceil(test_size * n_samples)
TestSize(n) == (n * TestSizePercent + 99) \div 100

\* The permutation of the row positions that the seed fixes.
SeededPermutation(n) == [k \in 1..n |-> ((k - 1 + RandomState) % n) + 1]

\* train_test_split: the first n_test rows of the permutation are the test
\* partition, the rest the training partition.
TrainTestSplit(n) ==
  LET perm == SeededPermutation(n)
  IN [test |-> {perm[k] : k \in 1..TestSize(n)},
      train |-> {perm[k] : k \in (TestSize(n) + 1)..n}]

\* Faulty variant of FitRows: the estimator is fit on the whole data set.
FitRows_All(split) == split.train \cup split.test

\* Line 47 (ml_training.py line 55): the rows model.fit is given.
FitRows(split) == split.train

\* ------------------------------------------------------------ the estimator

\* Whether an estimator of the class draws from a random state when it is fit.
Randomized(kind) == kind = "RandomForestClassifier"

\* The draws a fit can make: one for every fit when the random state is
\* fixed or unused, any of them otherwise.
DrawsFor(kind, seeded) == IF Randomized(kind) /\ ~seeded THEN {0, 1} ELSE {0}

MinOf(S) == CHOOSE x \in S : \A y \in S : x <= y

\* The sample of rows a fit draws.
Sample(rows, draw) == IF draw = 0 \/ rows = {} THEN rows ELSE rows \ {MinOf(rows)}

Count(rows, y, c) == Cardinality({i \in rows : y[i] = c})

\* argmax over the class votes; the first class wins a tie.
Majority(votes) == IF votes[1] > votes[0] THEN 1 ELSE 0

\* model.fit(X, y) on the rows given: names are the columns of X (none for
\* a numpy array), votes the class counts of the sample drawn.
FitEstimator(kind, names, rows, y, draw, i) ==
  LET votes == [c \in Labels |-> Count(Sample(rows, draw), y, c)]
  IN [kind |-> kind, names |-> names, seen |-> rows, label |-> Majority(votes),
      votes |-> votes, width |-> Len(names), by |-> i]

\* The content optimizer that ml_training.py leaves in the Model Store: a
\* GradientBoostingRegressor fit on a numpy array of three columns.
ContentOptimizer ==
  [kind |-> "GradientBoostingRegressor", names |-> <<>>, seen |-> {}, label |-> 0,
   votes |-> [c \in Labels |-> 0], width |-> 3, by |-> 0]

\* hasattr(model, 'predict_proba')
HasPredictProba(model) ==
  model.kind \in {"RandomForestClassifier", "GradientBoostingClassifier",
                  "LogisticRegression", "MLPClassifier"}

\* hasattr(model, 'feature_importances_')
HasFeatureImportances(model) ==
  model.kind \in {"RandomForestClassifier", "GradientBoostingClassifier",
                  "GradientBoostingRegressor"}

\* The importance an estimator gives a column it was fit on, in percent.
ImportanceOf(name) == IF name = "f1" THEN 60 ELSE 40

\* model.feature_importances_: one value per column, in the order of the fit.
Importances(model) ==
  IF model.names = <<>> THEN <<50, 30, 20>>
  ELSE [k \in 1..Len(model.names) |-> ImportanceOf(model.names[k])]

\* dict(zip(names, values)): as many entries as the shorter list has, the
\* last value of a repeated name.
DictZip(names, values) ==
  LET n == Min(Len(names), Len(values))
  IN [name \in {names[k] : k \in 1..n} |->
        values[MaxOf({k \in 1..n : names[k] = name})]]

\* Lines 62-65 (evaluate_model.py 35-38, predict.py 30-33).
FeatureImportance(model, names) ==
  IF HasFeatureImportances(model) THEN DictZip(names, Importances(model)) ELSE EmptyMapping

\* Whether model.predict accepts a matrix with the columns: the count must
\* be that of the fit; names that differ from those of the fit are rejected
\* by a scikit-learn that checks them (strict), accepted by one that warns.
Accepts(model, columns, strict) ==
  /\ Len(columns) = model.width
  /\ model.names # <<>> => (columns = model.names \/ ~strict)

\* ------------------------------------------------------------- the metrics

\* accuracy_score(y_true, y_pred) as correct / of.
AccuracyScore(rows, y, y_pred) ==
  [correct |-> Cardinality({i \in rows : y[i] = y_pred[i]}), of |-> Cardinality(rows)]

\* confusion_matrix(y_true, y_pred) without `labels`: one row and one column
\* per label that occurs in y_true or in y_pred.
ConfusionMatrix(rows, y, y_pred) ==
  LET labels == {y[i] : i \in rows} \cup {y_pred[i] : i \in rows}
  IN [t \in labels, p \in labels |->
        Cardinality({i \in rows : y[i] = t /\ y_pred[i] = p})]

\* The metrics of lines 53-56 and 77; precision, recall and F1 are functions
\* of the confusion matrix.
Metrics(rows, y, y_pred) ==
  [accuracy |-> AccuracyScore(rows, y, y_pred),
   confusionMatrix |-> ConfusionMatrix(rows, y, y_pred)]

\* The fold of cross-validation a training row is tested in.
FoldOf(i, rows) == (Cardinality({j \in rows : j < i}) % CvFolds) + 1

Fold(k, rows) == {i \in rows : FoldOf(i, rows) = k}

\* cross_val_score(model, X_train, y_train, cv=5): each fold fits a clone of
\* the estimator on the other folds and scores it on the fold.
CrossValScores(kind, names, rows, y, draws) ==
  [k \in 1..CvFolds |->
     LET clone == FitEstimator(kind, names, rows \ Fold(k, rows), y, draws[k], 0)
     IN AccuracyScore(Fold(k, rows), y, [i \in Fold(k, rows) |-> clone.label])]

RECURSIVE SumTo(_, _)
SumTo(f, k) == IF k = 0 THEN 0 ELSE f[k] + SumTo(f, k - 1)

\* cv_scores.mean() as a fraction: the fold accuracies over a common
\* denominator (folds differ in size by one row at most).
CvMean(scores) ==
  LET sizes == {scores[k].of : k \in 1..CvFolds}
      common == IF Cardinality(sizes) = 1 THEN MaxOf(sizes) ELSE MinOf(sizes) * MaxOf(sizes)
  IN [sum |-> SumTo([k \in 1..CvFolds |-> scores[k].correct * (common \div scores[k].of)],
                    CvFolds),
      of |-> common * CvFolds]

\* Faulty variant of MaxProbability: the smallest class probability.
MaxProbability_Min(model) ==
  [votes |-> IF model.votes[0] < model.votes[1] THEN model.votes[0] ELSE model.votes[1],
   of |-> model.votes[0] + model.votes[1]]

\* predict.py line 25: max(probabilities), as votes / of.
MaxProbability(model) ==
  [votes |-> Max(model.votes[0], model.votes[1]), of |-> model.votes[0] + model.votes[1]]

\* predict.py line 27: confidence = 0.8
DefaultConfidence == [votes |-> 4, of |-> 5]

\* predict.py lines 23-27.
Confidence(model) ==
  IF HasPredictProba(model) THEN MaxProbability(model) ELSE DefaultConfidence

\* f'{confidence:.1%}': the confidence in tenths of a percent, rounded.
PercentTenths(c) == (2000 * c.votes + c.of) \div (2 * c.of)

\* predict.py line 39.
Explanation(prediction, confidence) ==
  [predicted |-> prediction, percentTenths |-> PercentTenths(confidence)]

\* --------------------------------------------------- the trainer, by data

\* The invocations considered run one after the other: the request is
\* trained, and then either trained again or evaluated and predicted from.
Quiet ==
  /\ \A i \in Invocations : train[i].pc \in {"idle", "done"}
  /\ evaluate.pc \in {"idle", "done"}
  /\ predict.pc \in {"idle", "done"}

\* train_model.py lines 23-32 (ml_training.py lines 37-46): build X and y
\* and split them. train_archetype_classifier returns its baseline when it
\* has fewer than ten rows.
SplitData(i) ==
  /\ request # NoRequest /\ Quiet
  /\ train[i].pc = "idle" /\ \A j \in Invocations : j < i => train[j].pc = "done"
  /\ i > 1 => (evaluate.pc = "idle" /\ predict.pc = "idle")
  /\ IF request.script = "ml_training" /\ NRows < MinArchetypeRows
     THEN train' = [train EXCEPT ![i].pc = "done",
                                 ![i].results = [type |-> "baseline"]]
     ELSE LET split == TrainTestSplit(NRows)
          IN IF split.train = {}
             THEN train' = [train EXCEPT ![i].pc = "done", ![i].failure = "ValueError"]
             ELSE train' = [train EXCEPT ![i].pc = "fit", ![i].X_train = split.train,
                                         ![i].X_test = split.test]
  /\ UNCHANGED <<mlVars, neuronVars, loopVars, request, modelFile, evaluate, predict>>

\* train_model.py lines 35-47 (ml_training.py lines 49-55): the estimator of
\* the algorithm is fit; the archetype trainer fits its scaler on the same rows.
FitModel(i) ==
  /\ train[i].pc = "fit"
  /\ LET kind == EstimatorFor(request.algorithm)
         rows == FitRows([train |-> train[i].X_train, test |-> train[i].X_test])
     IN \E draw \in DrawsFor(kind, request.seeded) :
          LET model == FitEstimator(kind, request.features, rows, request.y, draw, i)
          IN train' = [train EXCEPT ![i].pc = "test", ![i].model = model,
                                    ![i].fitted = model,
                                    ![i].handed = request.features,
                                    ![i].scaler = IF request.script = "ml_training"
                                                  THEN rows ELSE {}]
  /\ UNCHANGED <<mlVars, neuronVars, loopVars, request, modelFile, evaluate, predict>>

\* train_model.py line 50 (ml_training.py line 58): predict the test partition.
TestModel(i) ==
  /\ train[i].pc = "test"
  /\ train' = [train EXCEPT ![i].pc = IF request.script = "ml_training" THEN "store" ELSE "cv",
                            ![i].y_pred = [r \in train[i].X_test |-> train[i].model.label]]
  /\ UNCHANGED <<mlVars, neuronVars, loopVars, request, modelFile, evaluate, predict>>

\* ml_training.py lines 59-68: the accuracy on the test partition is kept.
StoreArchetype(i) ==
  /\ train[i].pc = "store"
  /\ train' = [train EXCEPT ![i].pc = "done",
                            ![i].results =
                              [type |-> "archetype",
                               accuracy |-> AccuracyScore(train[i].X_test, request.y,
                                                          train[i].y_pred)]]
  /\ UNCHANGED <<mlVars, neuronVars, loopVars, request, modelFile, evaluate, predict>>

\* train_model.py line 59: cross_val_score(model, X_train, y_train, cv=5);
\* fewer training rows than folds raise ValueError, which nothing catches.
CrossValidate(i) ==
  /\ train[i].pc = "cv"
  /\ LET kind == train[i].model.kind
         rows == train[i].X_train
     IN IF Cardinality(rows) < CvFolds
        THEN train' = [train EXCEPT ![i].pc = "done", ![i].failure = "ValueError"]
        ELSE \E draws \in [1..CvFolds -> DrawsFor(kind, request.seeded)] :
               train' = [train EXCEPT ![i].pc = "dump", ![i].cvRead = rows,
                                      ![i].cv_mean =
                                        CvMean(CrossValScores(kind, request.features, rows,
                                                              request.y, draws))]
  /\ UNCHANGED <<mlVars, neuronVars, loopVars, request, modelFile, evaluate, predict>>

\* train_model.py line 68: joblib.dump(model, sys.argv[2]).
PersistModel(i) ==
  /\ train[i].pc = "dump"
  /\ modelFile' = train[i].model
  /\ train' = [train EXCEPT ![i].pc = "print"]
  /\ UNCHANGED <<mlVars, neuronVars, loopVars, request, evaluate, predict>>

\* train_model.py lines 71-81.
PrintMetrics(i) ==
  /\ train[i].pc = "print"
  /\ train' = [train EXCEPT ![i].pc = "done",
                            ![i].results =
                              [type |-> "metrics",
                               metrics |-> Metrics(train[i].X_test, request.y, train[i].y_pred),
                               crossValidationScore |-> train[i].cv_mean,
                               featureImportance |->
                                 FeatureImportance(train[i].model, request.features)]]
  /\ UNCHANGED <<mlVars, neuronVars, loopVars, request, modelFile, evaluate, predict>>

\* ------------------------------------------------- the evaluator, by data

\* evaluate_model.py line 11: the model file of the request is loaded.
ReloadModel ==
  /\ Quiet /\ evaluate.pc = "idle" /\ modelFile # NoModel
  /\ \A i \in Invocations : i > 1 => train[i].pc = "idle"
  /\ evaluate' = [evaluate EXCEPT !.pc = "data", !.model = modelFile]
  /\ UNCHANGED <<mlVars, neuronVars, loopVars, request, train, modelFile, predict>>

\* evaluate_model.py lines 14-23: the labelled rows (the test partition of
\* the training, or the whole data set) and the feature names of argv[3];
\* the records carry their label under the request's target column.
ReadLabeledData ==
  /\ evaluate.pc = "data"
  /\ \E rows \in {train[evaluate.model.by].X_test, Rows}, names \in FeatureOrders :
       IF request.target # EvalTargetColumn
       THEN evaluate' = [evaluate EXCEPT !.pc = "done", !.failure = "KeyError",
                                         !.rows = rows, !.feature_names = names]
       ELSE evaluate' = [evaluate EXCEPT !.pc = "score", !.rows = rows,
                                         !.feature_names = names, !.handed = names]
  /\ UNCHANGED <<mlVars, neuronVars, loopVars, request, train, modelFile, predict>>

\* evaluate_model.py line 26: y_pred = model.predict(X).
ScoreLabeledData ==
  /\ evaluate.pc = "score"
  /\ \E strict \in BOOLEAN :
       IF Accepts(evaluate.model, evaluate.handed, strict)
       THEN evaluate' = [evaluate EXCEPT !.pc = "print",
                                         !.y_pred = [r \in evaluate.rows |-> evaluate.model.label]]
       ELSE evaluate' = [evaluate EXCEPT !.pc = "done", !.failure = "ValueError"]
  /\ UNCHANGED <<mlVars, neuronVars, loopVars, request, train, modelFile, predict>>

\* evaluate_model.py lines 29-49.
PrintEvaluation ==
  /\ evaluate.pc = "print"
  /\ evaluate' = [evaluate EXCEPT
                    !.pc = "done",
                    !.results =
                      [type |-> "metrics",
                       metrics |-> Metrics(evaluate.rows, request.y, evaluate.y_pred),
                       featureImportance |->
                         FeatureImportance(evaluate.model, evaluate.feature_names)]]
  /\ UNCHANGED <<mlVars, neuronVars, loopVars, request, train, modelFile, predict>>

\* ------------------------------------------------- the predictor, by data

\* The columns train_content_optimizer fits its regressor on (line 88).
ContentColumns == <<"length", "readability", "keywords">>

\* The keys of the `features` object of argv[2], in the order it lists them.
KeyOrders ==
  FeatureOrders \cup {<<"f1", "f2", "note">>, ContentColumns,
                      <<"keywords", "length", "readability">>}

\* The feature names of argv[3].
NameLists == FeatureOrders \cup {ContentColumns}

\* predict.py line 10: the model file named is that of the request or the
\* content optimizer of the pipeline.
LoadForPredict ==
  /\ Quiet /\ predict.pc = "idle"
  /\ \A i \in Invocations : i > 1 => train[i].pc = "idle"
  /\ \E model \in ({modelFile} \ {NoModel}) \cup {ContentOptimizer} :
       predict' = [predict EXCEPT !.pc = "row", !.model = model]
  /\ UNCHANGED <<mlVars, neuronVars, loopVars, request, train, modelFile, evaluate>>

\* predict.py lines 13-17: df = pd.DataFrame([features]); its columns are
\* the keys of the object in their order.
BuildRow ==
  /\ predict.pc = "row"
  /\ \E keys \in KeyOrders, names \in NameLists :
       predict' = [predict EXCEPT !.pc = "predict", !.keys = keys,
                                  !.feature_names = names, !.handed = keys]
  /\ UNCHANGED <<mlVars, neuronVars, loopVars, request, train, modelFile, evaluate>>

\* predict.py line 20: model.predict(df)[0].
PredictRow ==
  /\ predict.pc = "predict"
  /\ \E strict \in BOOLEAN :
       IF Accepts(predict.model, predict.handed, strict)
       THEN predict' = [predict EXCEPT !.pc = "print"]
       ELSE predict' = [predict EXCEPT !.pc = "done", !.failure = "ValueError"]
  /\ UNCHANGED <<mlVars, neuronVars, loopVars, request, train, modelFile, evaluate>>

\* predict.py lines 23-42.
PrintPrediction ==
  /\ predict.pc = "print"
  /\ LET prediction == predict.model.label
         confidence == Confidence(predict.model)
     IN predict' = [predict EXCEPT
                      !.pc = "done",
                      !.results =
                        [type |-> "prediction", prediction |-> prediction,
                         confidence |-> confidence,
                         featureImportance |->
                           FeatureImportance(predict.model, predict.feature_names),
                         explanation |-> Explanation(prediction, confidence)]]
  /\ UNCHANGED <<mlVars, neuronVars, loopVars, request, train, modelFile, evaluate>>

\* A caller has a training request at hand; nothing has run yet.
InitData ==
  /\ MlInit
  /\ request \in RequestCases
  /\ train = [i \in Invocations |-> IdleTrain]
  /\ modelFile = NoModel
  /\ evaluate = IdleEvaluate
  /\ predict = IdlePredict
  /\ NeuronIdle
  /\ LoopIdle

NextData ==
  \/ \E i \in Invocations :
       \/ SplitData(i)
       \/ FitModel(i)
       \/ TestModel(i)
       \/ StoreArchetype(i)
       \/ CrossValidate(i)
       \/ PersistModel(i)
       \/ PrintMetrics(i)
  \/ ReloadModel
  \/ ReadLabeledData
  \/ ScoreLabeledData
  \/ PrintEvaluation
  \/ LoadForPredict
  \/ BuildRow
  \/ PredictRow
  \/ PrintPrediction

SpecData == InitData /\ [][NextData]_vars

\* ======================================================================
\* Third part: the neuron clients.  One client object of
\* python-example/neuron_client.py (ApiNeuronClient) or of
\* python-neuron/neuron_client.py (FederationClient with its
\* CommandProcessor), its public operations called one after another in
\* any order, and the federation answering each request as it likes.
\* ======================================================================

\* How many requests and how many commands are followed.
MaxRequests == 4
MaxCommands == 2
MaxTokens == 2

ClientKinds == {"python-example", "python-neuron"}

\* response.status_code; NoResponse: the request raised (connection error,
\* timeout) instead of returning.
StatusOk == 200
StatusCreated == 201
StatusServerError == 500
NoResponse == 0
Statuses == {StatusOk, StatusServerError, NoResponse}

\* What the federation may answer to a registration: 201 with data.token
\* (and data.instructions or not), 201 without a token, another status, or
\* no answer.
RegisterResponses ==
  [status : {StatusCreated}, token : 1..MaxTokens, instructions : {TRUE}]
    \cup [status : {StatusCreated}, token : {0, 1}, instructions : {FALSE}]
    \cup [status : {StatusServerError, NoResponse}, token : {0}, instructions : {FALSE}]

\* The command types the federation is taken to send; "health_check" is
\* known to python-neuron only, "reboot" to neither client.
CommandTypes == {"config_update", "run_task", "stop", "health_check", "reboot"}

KnownTypes(kind) ==
  IF kind = "python-example" THEN {"restart", "config_update", "run_task", "stop"}
  ELSE {"config_update", "restart", "run_task", "health_check", "stop"}

\* commandData: a JSON object without the keys a branch reads ("object"),
\* one that names a task the client knows, as task_type "data_processing"
\* ("task"), or null.
CommandData == {"object", "task", "null"}

\* A command object of commands/pending; id 0 stands for one without the
\* key commandId.  The commandData is varied for config_update and
\* run_task, whose branches read it.
Commands(id) ==
  {c \in [id : {id, 0}, type : CommandTypes, data : CommandData] :
     /\ c.data = "null" => c.type \in {"config_update", "run_task"}
     /\ c.data = "task" => c.type = "run_task"
     /\ c.id = 0 => (c.type = "reboot" /\ c.data = "object")}

\* session.post / session.get: the request goes out with the Authorization
\* header the session holds at that moment (0: none).  `registered` and
\* `token` are the fields is_registered and token of the client at that
\* moment, `from` the operation that sent it.
Request(endpoint, id, from) ==
  [endpoint |-> endpoint, id |-> id, from |-> from, auth |-> client.header,
   registered |-> client.is_registered, token |-> client.token]

\* completion_data of complete_command: success and errorMessage ("-":
\* None).
Completion(req, success, error) ==
  [endpoint |-> req.endpoint, id |-> req.id, from |-> req.from,
   auth |-> req.auth, registered |-> req.registered, token |-> req.token,
   success |-> success, error |-> error]

\* python-example lines 103-126, python-neuron lines 142-157 and 582-592.
\* The logger of python-example is the root logger at INFO (lines 46-48);
\* logInfo says whether it is still enabled for INFO when the object is
\* made.  Its call at 122-126 passes extra={"name": ...}, which
\* Logger.makeRecord refuses with a KeyError when the record is made.
Construct(kind, logInfo) ==
  /\ client.kind = "none"
  /\ client' = IF kind = "python-example" /\ logInfo
               THEN [NoClient EXCEPT !.kind = kind, !.logInfo = logInfo,
                                     !.failure = "KeyError"]
               ELSE [NoClient EXCEPT !.kind = kind, !.logInfo = logInfo,
                                     !.built = TRUE]
  /\ UNCHANGED <<mlVars, dataVars, loopVars, sent, proc>>

AtRest == proc.pc \in {"idle", "returned", "raised"}

\* A call can start: the object exists and no call is in progress.
CanCall == client.built /\ AtRest

CanSend == client.built /\ Len(sent) < MaxRequests

\* The fields after a 201 answer: python-example lines 173-189 read
\* data['data']['token'] first (KeyError: nothing is set); python-neuron
\* lines 213-221 do the same and then read data['data']['instructions'],
\* after the fields are set.
\* `answer` keeps the response the last registration got.
Registered(c, response) ==
  IF response.status = StatusCreated /\ response.token # 0
  THEN [c EXCEPT !.token = response.token, !.header = response.token,
                 !.is_registered = TRUE, !.answer = response,
                 !.failure = IF c.kind = "python-neuron" /\ ~response.instructions
                             THEN "KeyError" ELSE "none"]
  ELSE [c EXCEPT !.answer = response,
                 !.failure = IF response.status = StatusCreated THEN "KeyError"
                             ELSE "none"]

\* What the registration method returns: True at the end of the 201 branch
\* (python-example 191, python-neuron 222), False from the else branch and
\* from the handler of any exception.
RegisterReturns(kind, response) ==
  /\ response.status = StatusCreated /\ response.token # 0
  /\ kind = "python-neuron" => response.instructions

\* register_with_federation (python-example 128-200), register_neuron
\* (python-neuron 159-229).
Register(response) ==
  /\ CanCall /\ CanSend
  /\ sent' = Append(sent, Request("register", 0, "caller"))
  /\ client' = Registered(client, response)
  /\ UNCHANGED <<mlVars, dataVars, loopVars, proc>>

\* The three operations that start with `if not self.is_registered: return`;
\* the answer changes none of the fields followed here.
GuardedSend(endpoint) ==
  IF client.is_registered THEN Append(sent, Request(endpoint, 0, "caller")) ELSE sent

\* send_heartbeat: python-example 202-286, python-neuron 231-281.
SendHeartbeat(status) ==
  /\ CanCall /\ (client.is_registered => CanSend)
  /\ sent' = GuardedSend("heartbeat")
  /\ UNCHANGED <<mlVars, dataVars, loopVars, client, proc>>

\* check_for_commands (python-example 288-321), check_commands (python-neuron
\* 283-304).
CheckForCommands(status) ==
  /\ CanCall /\ (client.is_registered => CanSend)
  /\ sent' = GuardedSend("commands/pending")
  /\ UNCHANGED <<mlVars, dataVars, loopVars, client, proc>>

\* report_analytics: python-example 426-497, python-neuron 337-379.
ReportAnalytics(status) ==
  /\ CanCall /\ (client.is_registered => CanSend)
  /\ sent' = GuardedSend("analytics/report")
  /\ UNCHANGED <<mlVars, dataVars, loopVars, client, proc>>

\* acknowledge_command called by itself: python-example 323-338,
\* python-neuron 306-316.  No test of is_registered.
AcknowledgeCommand(id, status) ==
  /\ CanCall /\ CanSend
  /\ sent' = Append(sent, Request("acknowledge", id, "caller"))
  /\ UNCHANGED <<mlVars, dataVars, loopVars, client, proc>>

\* complete_command called by itself: python-example 340-362, python-neuron
\* 318-335.  No test of is_registered; every exception is caught.
CompleteCommand(id, status) ==
  /\ CanCall /\ CanSend
  /\ \E success \in BOOLEAN :
       sent' = Append(sent, Completion(Request("complete", id, "caller"), success, "-"))
  /\ UNCHANGED <<mlVars, dataVars, loopVars, client, proc>>

\* process_command, entry: python-example 366-368 index the command
\* (KeyError without commandId, before anything is sent); python-neuron
\* 475-477 use .get (None for a missing key).
ProcessCommand(command) ==
  /\ CanCall /\ proc.count < MaxCommands
  /\ IF command.id = 0 /\ client.kind = "python-example"
     THEN proc' = [proc EXCEPT !.pc = "raised", !.failure = "KeyError"]
     ELSE proc' = [pc |-> "ack", command |-> command, count |-> proc.count + 1,
                   acked |-> FALSE, success |-> FALSE, error |-> "-",
                   failure |-> "none", ended |-> proc.ended]
  /\ UNCHANGED <<mlVars, dataVars, loopVars, client, sent>>

\* python-example 376, python-neuron 482: the acknowledgement, its result
\* unused.
Acknowledge(status) ==
  /\ proc.pc = "ack" /\ CanSend
  /\ sent' = Append(sent, Request("acknowledge", proc.command.id, "process_command"))
  /\ proc' = [proc EXCEPT !.pc = "handle", !.acked = (status = StatusOk)]
  /\ UNCHANGED <<mlVars, dataVars, loopVars, client>>

\* Whether the branch of the command type lets an exception out into the
\* try block of process_command: python-example 386-398 call
\* command_data.get on a null commandData; the handlers of python-neuron
\* (513-577) each catch their own.
HandlerRaises(kind, command) ==
  /\ kind = "python-example"
  /\ command.type \in {"config_update", "run_task"}
  /\ command.data = "null"

\* Faulty variant of HandlerSuccess: a fixed table from type to success.
HandlerSuccess_Table(kind, command) == command.type \in KnownTypes(kind)

\* `success` of the branch taken when it does not raise.  The branches of
\* python-example answer with a fixed text; _handle_run_task of python-neuron
\* (531-549) succeeds for the task types data_processing and
\* report_generation only, and catches the AttributeError of a null
\* commandData itself.
HandlerSuccess(kind, command) ==
  /\ command.type \in KnownTypes(kind)
  /\ (kind = "python-neuron" /\ command.type = "run_task") => command.data = "task"

\* errorMessage of the completion when the branch does not raise: None
\* ("-") with success, else the text of the branch.
HandlerError(kind, command) ==
  IF command.type \notin KnownTypes(kind) THEN "Unknown command type"
  ELSE IF HandlerSuccess(kind, command) THEN "-"
  ELSE IF command.data = "null" THEN "exception text"
  ELSE "Unknown task type"

\* Faulty variant of Raised: the except branch returns without reporting.
Raised_Silent(s, error) ==
  [s EXCEPT !.pc = "returned", !.success = FALSE, !.failure = error,
            !.error = "exception text", !.ended = @ \cup {s.command.id}]

\* The except branch: python-example 418-424, python-neuron 508-511.
Raised(s, error) ==
  [s EXCEPT !.pc = "complete", !.success = FALSE, !.failure = error,
            !.error = "exception text"]

\* _handle_stop of python-neuron (569-577) sends SIGTERM to its own process;
\* _signal_handler (established at 591-592) notes it and clears `running`,
\* and the call goes on.  The stop branch of python-example only answers.
SignalsItself(kind, command) == kind = "python-neuron" /\ command.type = "stop"

\* python-example 378-414, python-neuron 484-495: the branch of the type.
Handle ==
  /\ proc.pc = "handle" /\ client.built
  /\ proc' = IF HandlerRaises(client.kind, proc.command)
             THEN Raised(proc, "AttributeError")
             ELSE [proc EXCEPT !.pc = "complete",
                               !.success = HandlerSuccess(client.kind, proc.command),
                               !.error = HandlerError(client.kind, proc.command)]
  /\ client' = [client EXCEPT !.signalled = @ \/ SignalsItself(client.kind, proc.command)]
  /\ UNCHANGED <<mlVars, dataVars, loopVars, sent>>

\* python-example 416 or 424, python-neuron 498-503 or 511: the completion
\* report; complete_command returns on every answer.
Complete(status) ==
  /\ proc.pc = "complete" /\ CanSend
  /\ sent' = Append(sent, Completion(Request("complete", proc.command.id, "process_command"),
                                     proc.success, proc.error))
  /\ proc' = [proc EXCEPT !.pc = "returned", !.ended = @ \cup {proc.command.id}]
  /\ UNCHANGED <<mlVars, dataVars, loopVars, client>>

\* python-neuron 613-620 and 677-687: once `running` is cleared the main
\* thread leaves its loop, waits up to five seconds for each thread and
\* returns; the threads are daemons and end with the process, wherever the
\* command thread is.
Shutdown ==
  /\ client.built /\ client.signalled
  /\ client' = [client EXCEPT !.built = FALSE]
  /\ UNCHANGED <<mlVars, dataVars, loopVars, sent, proc>>

InitNeuron == MlInit /\ DataIdle /\ NeuronIdle /\ LoopIdle

NextNeuron ==
  \/ \E kind \in ClientKinds, logInfo \in BOOLEAN : Construct(kind, logInfo)
  \/ \E response \in RegisterResponses : Register(response)
  \/ \E status \in Statuses :
       \/ SendHeartbeat(status)
       \/ CheckForCommands(status)
       \/ ReportAnalytics(status)
       \/ AcknowledgeCommand(0, status)
       \/ CompleteCommand(0, status)
       \/ Acknowledge(status)
       \/ Complete(status)
  \/ \E command \in Commands(proc.count + 1) : ProcessCommand(command)
  \/ Handle
  \/ Shutdown

SpecNeuron == InitNeuron /\ [][NextNeuron]_vars

\* ---------------------------------------------------------------------------
\* Fourth part: one started neuron.  start() registers once and starts the
\* heartbeat, command and analytics threads; each thread tests the running
\* flag, calls the federation and sleeps; stop() / _shutdown() clear the flag
\* and wait for each thread with a timeout.  Time is counted in units of five
\* seconds; a sleep ends no earlier than its interval, a request and a join
\* may take any time.
\* ---------------------------------------------------------------------------

MaxTime == 4
MaxSimulated == 1

\* NeuronConfig.heartbeat_interval and analytics_interval (python-example
\* 60-61), heartbeat_interval and analytics_report_interval (python-neuron
\* 51, 53): here 10 and 15 seconds.
HeartbeatInterval == 2
AnalyticsInterval == 3
\* python-example 560: time.sleep(10); python-neuron 52, 646:
\* command_check_interval, here 10 seconds.
CommandInterval == 2
\* python-neuron 649: time.sleep(5) in the except branch of the command loop.
RetryPause == 1
\* python-example 609-614, python-neuron 685: join(timeout=5).
JoinTimeout == 1

Interval(t) ==
  CASE t = "heartbeat" -> HeartbeatInterval
    [] t = "command" -> CommandInterval
    [] t = "analytics" -> AnalyticsInterval

\* What a call of the loop comes back with.  "ok": a 200 answer (for the
\* command poll: an empty list); "error": another status, a timeout or a
\* connection error, logged inside the method, which returns False or [].
\* For the command poll also a 200 answer whose data is a list with one
\* command object ("batch"), is null ("null"), or is a list with an entry
\* that is not an object ("malformed").
Outcomes(t) ==
  IF t = "command" THEN {"ok", "error", "batch", "null", "malformed"}
  ELSE {"ok", "error"}

\* A request of the started neuron: who sent it, what came back, and the
\* request counters a heartbeat or analytics payload reports (python-example
\* 238-243, 442-450).
Post(endpoint, from, outcome) ==
  [endpoint |-> endpoint, from |-> from, outcome |-> outcome,
   total |-> node.request_count, successful |-> node.successful_requests,
   failed |-> node.failed_requests]

\* ApiNeuronClient(config) / PythonApiNeuron(config) and the call of start().
\* The python-example client is followed with logging above INFO, where its
\* constructor and start() get past their first log call.
StartClient(kind) ==
  /\ node.pc = "new"
  /\ node' = [node EXCEPT !.kind = kind, !.pc = "register"]
  /\ UNCHANGED <<mlVars, dataVars, neuronVars, threads, now, wire>>

\* Faulty variant of StartGoesOn: start() goes on whatever register said.
StartGoesOn_Always(kind, response) == TRUE

\* python-example 582-584, python-neuron 600-602: start() goes on only when
\* the registration method returned True.
StartGoesOn(kind, response) == RegisterReturns(kind, response)

\* The thread objects once started: each at the test of its while loop.
Started == [t \in Loops |-> [NoThread EXCEPT !.pc = "check"]]

\* python-example 581-590, python-neuron 600-609: the one registration of
\* start(); on True the running flag is set and the three threads are
\* started, on False start() returns False (python-example) or exits with
\* status 1 (python-neuron).
RegisterOnce(response) ==
  /\ node.pc = "register"
  /\ LET returned == RegisterReturns(node.kind, response)
     IN  /\ wire' = Post("register", "start", IF returned THEN "ok" ELSE "error")
         /\ IF StartGoesOn(node.kind, response)
            THEN /\ node' = [node EXCEPT !.returned = returned, !.attempts = @ + 1,
                                         !.running = TRUE,
                                         !.pc = IF node.kind = "python-example"
                                                THEN "initial" ELSE "main"]
                 /\ threads' = Started
            ELSE /\ node' = [node EXCEPT !.returned = returned, !.attempts = @ + 1,
                                         !.pc = "failed"]
                 /\ UNCHANGED threads
  /\ UNCHANGED <<mlVars, dataVars, neuronVars, now>>

\* python-example 592-593: the heartbeat start() sends itself.
InitialHeartbeat ==
  /\ node.pc = "initial"
  /\ \E outcome \in Outcomes("heartbeat") : wire' = Post("heartbeat", "start", outcome)
  /\ node' = [node EXCEPT !.pc = "main"]
  /\ UNCHANGED <<mlVars, dataVars, neuronVars, threads, now>>

\* simulate_request (python-example 621-624), called from the main loop
\* (659-665): the request count goes up first.
SimulateCount ==
  /\ node.kind = "python-example" /\ node.pc = "main" /\ node.running
  /\ node.request_count < MaxSimulated
  /\ node' = [node EXCEPT !.request_count = @ + 1, !.pc = "simulate"]
  /\ UNCHANGED <<mlVars, dataVars, neuronVars, threads, now, wire>>

\* python-example 626-629: then the count of its outcome.
SimulateOutcome(success) ==
  /\ node.pc = "simulate"
  /\ node' = IF success
             THEN [node EXCEPT !.successful_requests = @ + 1, !.pc = "main"]
             ELSE [node EXCEPT !.failed_requests = @ + 1, !.pc = "main"]
  /\ UNCHANGED <<mlVars, dataVars, neuronVars, threads, now, wire>>

\* stop() (python-example 601-607) and, after a signal cleared `running`,
\* _shutdown() (python-neuron 672-680): the flag is cleared and the first
\* join begins.
StopClient ==
  /\ node.pc = "main"
  /\ node' = [node EXCEPT !.running = FALSE, !.pc = "join", !.joined = 0,
                          !.joinFrom = now]
  /\ UNCHANGED <<mlVars, dataVars, neuronVars, threads, now, wire>>

\* The order of the joins: python-example 609-614; python-neuron 683 follows
\* self.threads, filled at 607-609.
JoinOrder(kind) ==
  IF kind = "python-example" THEN <<"heartbeat", "analytics", "command">>
  ELSE <<"heartbeat", "command", "analytics">>

\* join(timeout=5) returns when the thread has ended or five seconds have
\* passed.
JoinReturns(thread, since) ==
  \/ thread.pc \in {"done", "dead"}
  \/ now >= since + JoinTimeout

\* python-example 609-619, python-neuron 683-687: one join returns; after
\* the last one stop() / _shutdown() returns.
JoinThread ==
  /\ node.pc = "join"
  /\ JoinReturns(threads[JoinOrder(node.kind)[node.joined + 1]], node.joinFrom)
  /\ node' = [node EXCEPT !.joined = @ + 1, !.joinFrom = now,
                          !.pc = IF node.joined + 1 = Cardinality(Loops)
                                 THEN "stopped" ELSE "join"]
  /\ UNCHANGED <<mlVars, dataVars, neuronVars, threads, now, wire>>

\* The test of `while self.is_running` / `while self.running`, when the
\* thread starts and each time its sleep has returned.
CheckRunning(t) ==
  /\ \/ threads[t].pc = "check"
     \/ threads[t].pc = "sleep" /\ now >= threads[t].wake
  /\ threads' = [threads EXCEPT ![t] = [NoThread EXCEPT
                    !.pc = IF node.running THEN "call" ELSE "done"]]
  /\ UNCHANGED <<mlVars, dataVars, neuronVars, node, now, wire>>

\* Faulty variant of SleepAfter: a short pause after every failure.
SleepAfter_Retry(kind, t, outcome) ==
  IF outcome \in {"error", "malformed"} THEN RetryPause ELSE Interval(t)

\* The sleep that follows a call.  The methods catch their own exceptions
\* and return, so the loop sleeps its interval; only process_command of
\* python-neuron lets one out (command.get on an entry that is not an
\* object, 475), into the except branch of the command loop (648-650).
SleepAfter(kind, t, outcome) ==
  IF kind = "python-neuron" /\ outcome = "malformed" THEN RetryPause
  ELSE Interval(t)

\* The thread after its call.  python-example 555-560: check_for_commands
\* returns data['data'] as it is, and the for statement raises TypeError on
\* None, with no handler in the loop; the commands of a list are handed to
\* new threads.  python-neuron 643-646: len(None) raises inside
\* check_commands, which returns []; the commands of a list are processed
\* by the loop thread itself.
AfterCall(kind, t, thread, outcome) ==
  IF kind = "python-example" /\ outcome = "null"
  THEN [thread EXCEPT !.pc = "dead"]
  ELSE IF kind = "python-neuron" /\ outcome = "batch"
  THEN [thread EXCEPT !.pc = "handle"]
  ELSE [thread EXCEPT !.pc = "sleep", !.wake = now + SleepAfter(kind, t, outcome)]

\* send_heartbeat / check_for_commands / report_analytics called by the
\* loop: python-example 542, 548, 554; python-neuron 627, 643, 661.
CallFederation(t, outcome) ==
  /\ threads[t].pc = "call"
  /\ wire' = Post(t, t, outcome)
  /\ threads' = [threads EXCEPT ![t] = AfterCall(node.kind, t, threads[t], outcome)]
  /\ UNCHANGED <<mlVars, dataVars, neuronVars, node, now>>

\* python-neuron 644-646: the loop thread has processed the batch (for
\* run_task after a sleep of one or two seconds), reports the completion and
\* goes to sleep.
Handled(t) ==
  /\ threads[t].pc = "handle"
  /\ \E outcome \in Outcomes("heartbeat") : wire' = Post("complete", t, outcome)
  /\ threads' = [threads EXCEPT ![t].pc = "sleep", ![t].wake = now + Interval(t)]
  /\ UNCHANGED <<mlVars, dataVars, neuronVars, node, now>>

\* Five seconds pass.  A thread tests the flag as soon as it has started or
\* its sleep is over; a request, a command handler and a join take any time.
Tick ==
  /\ now < MaxTime
  /\ \A t \in Loops :
       /\ threads[t].pc # "check"
       /\ threads[t].pc = "sleep" => now < threads[t].wake
  /\ now' = now + 1
  /\ UNCHANGED <<mlVars, dataVars, neuronVars, node, threads, wire>>

InitLoops == MlInit /\ DataIdle /\ NeuronIdle /\ LoopIdle

NextLoops ==
  \/ \E kind \in ClientKinds : StartClient(kind)
  \/ \E response \in RegisterResponses : RegisterOnce(response)
  \/ InitialHeartbeat
  \/ SimulateCount
  \/ \E success \in BOOLEAN : SimulateOutcome(success)
  \/ StopClient
  \/ JoinThread
  \/ \E t \in Loops :
       \/ CheckRunning(t)
       \/ \E outcome \in Outcomes(t) : CallFederation(t, outcome)
       \/ Handled(t)
  \/ Tick

SpecLoops == InitLoops /\ [][NextLoops]_vars

\* ================================================================ claims

Done(r) == run[r].pc = "done"

MlScripts == {"train_model", "evaluate_model", "predict"}

\* Whether a printed JSON object has an `error` key.
HasError(json) == json.type = "results" /\ json.error

\* A failure of the kinds a run can meet after its arguments were accepted.
FailedRun(r) == run[r].failure \notin {"none", "SystemExit"}

\* The runs that wrote the artifact at a path.
Writers(p) == {r \in Runs : p \in run[r].wrote}

\* ---- C1
\* C1 as stated: in each of the four scripts a run that meets a failure
\* still ends with exit code 0 and prints a JSON object with an `error` field.
C1_EveryScriptCatches ==
  \A r \in Runs :
    (Done(r) /\ FailedRun(r)) =>
      (run[r].exit = ExitOk /\ HasError(run[r].printed))

\* C1 amended: only ml_training.py catches a failure at its top level (exit
\* code 0, the fallback object with `error` as the last thing printed);
\* train_model.py, evaluate_model.py and predict.py have no handler, a failure
\* ends them with the exit code of an uncaught exception and nothing on
\* standard output; argparse's usage error of ml_training.py exits with 2.
C1_OnlyPipelineCatches ==
  \A r \in Runs :
    Done(r) =>
      /\ (run[r].script = "ml_training" /\ FailedRun(r)) =>
           /\ run[r].exit = ExitOk
           /\ run[r].printed = [type |-> "results", error |-> TRUE, body |-> FallbackResults]
           /\ run[r].stdout = <<"json">>
      /\ (run[r].script = "ml_training" /\ run[r].failure = "SystemExit") =>
           (run[r].exit = ExitUsage /\ run[r].printed = NoJson)
      /\ (run[r].script \in MlScripts /\ FailedRun(r)) =>
           /\ run[r].exit = ExitUncaught
           /\ run[r].printed = NoJson
           /\ run[r].stdout = <<>>
      /\ (run[r].script \in MlScripts /\ ~FailedRun(r)) =>
           (run[r].exit = ExitOk /\ run[r].stdout = <<"json">>)

\* A failed train_model.py run next to an ml_training.py run that fell back.
C1_Witness ==
  \E r, q \in Runs :
    /\ Done(r) /\ run[r].script = "train_model" /\ run[r].failure = "ValueError"
    /\ Done(q) /\ run[q].script = "ml_training" /\ run[q].failure = "JSONDecodeError"

\* ---- C2
\* C2 as stated: a result of ml_training.py printed without `error` means
\* that no stage failed.
C2_NoErrorMeansNoStageFailed ==
  \A r \in Runs :
    (Done(r) /\ run[r].script = "ml_training" /\ run[r].printed.type = "results"
       /\ ~run[r].printed.error) =>
      run[r].stageFailed = {}

\* C2 amended: a stage that fails catches its own failure; the result then
\* printed has no `error` field and carries the stage's hardcoded values
\* (8, 3, 5 for discover_patterns, archetype_insights 1, content_optimizations
\* 5, nothing for save_models). `error` is printed only when a failure
\* reached main's own handler, and then no stage has run.
C2_StageFailureLeavesNoError ==
  \A r \in Runs :
    (Done(r) /\ run[r].script = "ml_training" /\ run[r].printed.type = "results") =>
      LET out == run[r].printed
          failed == run[r].stageFailed
      IN /\ out.error <=> FailedRun(r)
         /\ out.error => failed = {}
         /\ "discover_patterns" \in failed =>
              /\ out.body.patterns_discovered = 8
              /\ out.body.cross_neuron_learnings = 3
              /\ out.body.improvement_opportunities = 5
         /\ "train_archetype_classifier" \in failed => out.body.archetype_insights = 1
         /\ "train_content_optimizer" \in failed => out.body.content_optimizations = 5

\* A printed result without `error` of a run in which three stages failed.
C2_Witness ==
  \E r \in Runs :
    /\ Done(r) /\ run[r].script = "ml_training"
    /\ run[r].printed.type = "results" /\ ~run[r].printed.error
    /\ {"discover_patterns", "train_content_optimizer", "save_models"} \subseteq run[r].stageFailed

\* ---- C3
\* C3: with an algorithm name outside the four known ones train_model.py
\* raises nothing when it builds the estimator, fits a RandomForestClassifier,
\* writes it to the model path and prints the metrics of that model.
C3_UnknownAlgorithmFallsBack ==
  \A r \in Runs :
    (run[r].script = "train_model" /\ run[r].unknownAlg) =>
      /\ run[r].failure # "TypeError"
      /\ run[r].pc \in {"fit", "evaluate", "dump", "print"} =>
           run[r].model.kind = "RandomForestClassifier"
      /\ (run[r].pc = "print" /\ lastWriter[run[r].path] = r) =>
           store[run[r].path] = Fitted("RandomForestClassifier", r)
      /\ (Done(r) /\ run[r].failure = "none") =>
           /\ run[r].exit = ExitOk
           /\ run[r].path \in run[r].wrote
           /\ run[r].printed = [type |-> "metrics",
                               model |-> Fitted("RandomForestClassifier", r)]

\* A run with an unknown algorithm name that ended with its metrics printed.
C3_Witness ==
  \E r \in Runs :
    /\ run[r].script = "train_model" /\ run[r].unknownAlg
    /\ Done(r) /\ run[r].exit = ExitOk /\ run[r].printed.type = "metrics"

\* ---- C4
\* C4 as stated: when a record lacks a requested feature or the target
\* column, training and evaluation never go on with a filled-in value and
\* end in a failure, with nothing printed and no model written.
C4_MissingKeyIsSchemaFailure ==
  \A r \in Runs :
    (run[r].script \in {"train_model", "evaluate_model"} /\ run[r].missing) =>
      /\ run[r].nan = {}
      /\ run[r].pc \notin {"init", "fit", "evaluate", "dump", "score", "print"}
      /\ Done(r) => (run[r].failure # "none" /\ run[r].printed = NoJson /\ run[r].wrote = {})

\* ---- C5
\* C5: when the Model Store holds nothing under the model path, the load
\* step of evaluate_model.py and predict.py ends the run with
\* FileNotFoundError: no evaluation data has been read, nothing is printed.
C5_MissingModelFailsFirst ==
  [][\A r \in Runs :
       (/\ run[r].script \in {"evaluate_model", "predict"}
        /\ run[r].pc = "load_model" /\ run'[r] # run[r]
        /\ store[run[r].path] = NoArtifact) =>
         /\ ~run[r].dataRead
         /\ run'[r].pc = "done"
         /\ run'[r].failure = "FileNotFoundError"
         /\ run'[r].exit = ExitUncaught
         /\ ~run'[r].dataRead
         /\ run'[r].printed = NoJson /\ run'[r].stdout = <<>>]_vars

\* An evaluation and a prediction that both met a missing model file.
C5_Witness ==
  \E r, q \in Runs :
    /\ run[r].script = "evaluate_model" /\ run[r].absentAtLoad /\ Done(r)
    /\ run[q].script = "predict" /\ run[q].absentAtLoad /\ Done(q)

\* ---- C6
\* A training run counts as completed when its process ended normally and
\* it reported no failure of its own (no uncaught exception, no failed save).
Completed(r) ==
  /\ Done(r) /\ run[r].exit = ExitOk /\ run[r].failure = "none"
  /\ "save_models" \notin run[r].stageFailed

\* The artifact files of a name listed in models_updated.
UpdatedPaths(label) ==
  IF label = "archetype-classifier" THEN {ArchetypePath, ArchetypeScalerPath} ELSE {ContentPath}

\* Whether the run fit a model (or scaler) that belongs at the path.
FitFor(r, p) ==
  \/ run[r].script = "train_model" /\ run[r].path = p /\ run[r].printed.type = "metrics"
  \/ /\ run[r].script = "ml_training" /\ run[r].printed.type = "results"
     /\ \E k \in 1..Len(run[r].printed.body.models_updated) :
          p \in UpdatedPaths(run[r].printed.body.models_updated[k])

C7_LastWriteWins ==
  /\ \A p \in Paths : lastWriter[p] # 0 => store[p].by = lastWriter[p]
  /\ \A r \in Runs :
       (run[r].script = "train_model" /\ run[r].pc = "dump") => ENABLED TrainDump(r)
  /\ \A r \in Runs :
       (run[r].script = "train_model" /\ run[r].printed # NoJson) =>
         run[r].printed.model.by = r

\* Two overlapping runs on one path; a run has printed the metrics of its
\* model while the path holds the other run's model.
C7_Witness ==
  \E r, q \in Runs :
    /\ r # q
    /\ run[r].script = "train_model" /\ run[q].script = "train_model"
    /\ run[r].path = run[q].path /\ run[r].path \in overlapped
    /\ Done(r) /\ run[r].printed.type = "metrics"
    /\ store[run[r].path].by = q

\* ---- C8
\* C8 as stated: a run in which the write of a model artifact failed never
\* prints a successful result.
C8_WriteFailureIsFatal ==
  \A r \in Runs :
    run[r].writeFailed # {} => (run[r].printed = NoJson \/ HasError(run[r].printed))

\* ---- C9
\* C9 as stated: after save_models has gone through without an error the
\* directory exists and every model trained in the run has both its model
\* file and its scaler file.
C9_BothArtifacts ==
  \A r \in Runs :
    (run[r].script = "ml_training" /\ run[r].pc = "results"
       /\ "save_models" \notin run[r].stageFailed) =>
      /\ dirExists
      /\ \A k \in 1..Len(run[r].models) :
           /\ store[ModelPath(run[r].models[k])] # NoArtifact
           /\ store[ScalerPath(run[r].models[k])] # NoArtifact

\* C9 amended: after save_models has gone through without an error the
\* directory exists and holds the model file of every model trained in the
\* run, and a scaler file exactly for the models that have a scaler;
\* content_optimizer has none, its scaler file is never written. When
\* makedirs or a write fails, save_models reports it and returns normally.
C9_ScalerOnlyWhenFitted ==
  /\ store[ContentScalerPath] = NoArtifact
  /\ \A r \in Runs :
       (run[r].script = "ml_training" /\ run[r].pc = "results") =>
         IF "save_models" \in run[r].stageFailed
         THEN run[r].stdout[Len(run[r].stdout)] = "Model saving failed"
         ELSE /\ dirExists
              /\ run[r].stdout[Len(run[r].stdout)] = "Saved models"
              /\ "content_optimizer" \notin run[r].scalers
              /\ \A k \in 1..Len(run[r].models) :
                   LET name == run[r].models[k]
                   IN /\ ModelPath(name) \in run[r].wrote
                      /\ store[ModelPath(name)] # NoArtifact
                      /\ (name \in run[r].scalers) <=> (ScalerPath(name) \in run[r].wrote)
                      /\ (name \in run[r].scalers) => store[ScalerPath(name)] # NoArtifact
              /\ run[r].wrote \subseteq
                   {ModelPath(run[r].models[k]) : k \in 1..Len(run[r].models)}
                     \cup {ScalerPath(name) : name \in run[r].scalers}

\* save_models went through for a run that trained both models.
C9_Witness ==
  \E r \in Runs :
    /\ run[r].script = "ml_training" /\ run[r].pc = "results"
    /\ "save_models" \notin run[r].stageFailed
    /\ run[r].models = <<"archetype_classifier", "content_optimizer">>
    /\ run[r].wrote = {ArchetypePath, ArchetypeScalerPath, ContentPath}

\* ---- C10
\* C10: no step of an evaluate_model.py or predict.py run, a failing one
\* included, changes the Model Store or the model directory.
C10_ReadOnly ==
  [][\A r \in Runs :
       (run[r].script \in {"evaluate_model", "predict"} /\ run'[r] # run[r]) =>
         (store' = store /\ dirExists' = dirExists)]_vars

\* An evaluation that printed its metrics and a prediction that failed, with
\* a model in the store.
C10_Witness ==
  \E r, q \in Runs :
    /\ run[r].script = "evaluate_model" /\ Done(r) /\ run[r].printed.type = "metrics"
    /\ run[q].script = "predict" /\ Done(q) /\ run[q].failure = "ValueError"
    /\ store[run[r].path] # NoArtifact

\* ---- C11
\* C11: the split parts the rows into a test partition of a fifth of them
\* (rounded up) and a training partition of the rest; the estimator (and
\* the archetype trainer's scaler) is fit on the training partition and on
\* nothing else; the rows predicted for the metrics are the test partition;
\* cross-validation reads training rows only and leaves the estimator as
\* model.fit made it, and that estimator is the one written to the model file.
C11_FitsOnTrainingPartitionOnly ==
  \A i \in Invocations :
    LET t == train[i]
    IN /\ t.pc \notin {"idle", "done"} =>
            /\ t.X_train \cap t.X_test = {}
            /\ t.X_train \cup t.X_test = Rows
            /\ Cardinality(t.X_test) = TestSize(NRows)
            /\ Cardinality(t.X_test) * 100 >= NRows * TestSizePercent
            /\ (Cardinality(t.X_test) - 1) * 100 < NRows * TestSizePercent
       /\ t.model # NoModel =>
            /\ t.model.seen = t.X_train
            /\ t.model = t.fitted
            /\ request.script = "ml_training" => t.scaler = t.X_train
       /\ DOMAIN t.y_pred \subseteq t.X_test
       /\ t.pc \in {"cv", "store", "dump", "print"} => DOMAIN t.y_pred = t.X_test
       /\ t.cvRead \subseteq t.X_train
       /\ t.pc \in {"dump", "print"} => t.cvRead = t.X_train
       /\ (t.pc = "print" /\ modelFile # NoModel /\ modelFile.by = i) =>
            (modelFile = t.fitted /\ modelFile.seen = t.X_train)
       /\ t.results.type = "metrics" =>
            t.results.metrics.accuracy.of = TestSize(NRows)

\* A train_model.py invocation has cross-validated and written its model and
\* is about to print.
C11_Witness ==
  \E i \in Invocations :
    /\ request.script = "train_model" /\ train[i].pc = "print"
    /\ train[i].cvRead = train[i].X_train /\ train[i].X_test # {}
    /\ modelFile.by = i /\ modelFile.seen = train[i].X_train

\* ---- C12
\* C12 as stated: whenever a script hands a feature matrix to the model
\* (to fit in training, to predict in evaluation and in prediction), the
\* columns of the matrix are the feature names given to the script, in
\* their order.
C12_MatrixHasNamedColumns ==
  /\ \A i \in Invocations :
       (request.script = "train_model" /\ train[i].model # NoModel) =>
         train[i].handed = request.features
  /\ (evaluate.pc = "print" \/ (evaluate.pc = "done" /\ evaluate.failure = "none")) =>
       evaluate.handed = evaluate.feature_names
  /\ (predict.pc = "print" \/ (predict.pc = "done" /\ predict.failure = "none")) =>
       predict.handed = predict.feature_names

\* ---- C13
\* C13: the confidence predict.py prints is the probability of the class it
\* predicts, which is the largest class probability, when the model has
\* predict_proba, and 0.8 when it has not; it lies between 0 and 1; the
\* explanation carries the predicted value and that confidence as a
\* percentage with one decimal.
C13_ConfidenceIsMaxProbability ==
  predict.results.type = "prediction" =>
    LET model == predict.model
        out == predict.results
        total == model.votes[0] + model.votes[1]
    IN /\ HasPredictProba(model) =>
            /\ out.confidence = [votes |-> model.votes[out.prediction], of |-> total]
            /\ \A c \in Labels : model.votes[c] <= out.confidence.votes
       /\ ~HasPredictProba(model) => (out.confidence.votes = 4 /\ out.confidence.of = 5)
       /\ out.confidence.of > 0
       /\ 0 <= out.confidence.votes /\ out.confidence.votes <= out.confidence.of
       /\ out.explanation.predicted = out.prediction
       /\ out.explanation.percentTenths \in 0..1000
       /\ (out.explanation.percentTenths * out.confidence.of
             - 1000 * out.confidence.votes) * 2 \in (-out.confidence.of)..out.confidence.of

\* A prediction was printed from a classifier whose class probabilities are
\* 5/7 and 2/7.
C13_Witness ==
  /\ predict.results.type = "prediction"
  /\ HasPredictProba(predict.model)
  /\ predict.results.confidence = [votes |-> 5, of |-> 7]
  /\ predict.results.explanation.percentTenths = 714

\* ---- C14
\* C14: the featureImportance that train_model.py, evaluate_model.py and
\* predict.py print has one entry per feature name given to the script,
\* each the importance the model has for the feature of that name, when the
\* estimator has feature_importances_, and is empty otherwise.
C14_ImportancePerFeature ==
  /\ \A i \in Invocations :
       train[i].results.type = "metrics" =>
         LET out == train[i].results.featureImportance
         IN IF HasFeatureImportances(train[i].model)
            THEN /\ DOMAIN out = {request.features[k] : k \in 1..Len(request.features)}
                 /\ \A name \in DOMAIN out : out[name] = ImportanceOf(name)
            ELSE out = EmptyMapping
  /\ evaluate.results.type = "metrics" =>
       LET out == evaluate.results.featureImportance
           names == evaluate.feature_names
       IN IF HasFeatureImportances(evaluate.model)
          THEN /\ DOMAIN out = {names[k] : k \in 1..Len(names)}
               /\ \A name \in DOMAIN out : out[name] = ImportanceOf(name)
          ELSE out = EmptyMapping
  /\ predict.results.type = "prediction" =>
       LET out == predict.results.featureImportance
           names == predict.feature_names
           fitNames == IF predict.model.names = <<>> THEN ContentColumns
                       ELSE predict.model.names
       IN IF HasFeatureImportances(predict.model)
          THEN /\ DOMAIN out = {names[k] : k \in 1..Len(names)}
               /\ \A k \in 1..Len(fitNames) :
                    fitNames[k] \in DOMAIN out =>
                      out[fitNames[k]] = Importances(predict.model)[k]
          ELSE out = EmptyMapping

\* ---- C15
\* C15: a run that has ended has written one JSON object to standard output
\* and nothing else, whether it succeeded or fell back.
C15_StdoutIsOneJson ==
  \A r \in Runs : Done(r) => run[r].stdout = <<"json">>

\* ---- C16
\* C16: two train invocations of the same request (same data, algorithm and
\* hyperparameters) that have ended have the same train/test split, the same
\* cross-validation score and the same printed results.
C16_TrainIsReproducible ==
  (train[1].pc = "done" /\ train[2].pc = "done") =>
    /\ train[1].X_train = train[2].X_train
    /\ train[1].X_test = train[2].X_test
    /\ train[1].cv_mean = train[2].cv_mean
    /\ train[1].results = train[2].results

\* ---- C17
\* C17: when evaluate_model.py has reloaded the model train_model.py wrote
\* and has been given the test partition of that training with the feature
\* names of the request, it prints the metrics the training printed, for
\* every target column name of the request.
C17_RoundTripReproducesMetrics ==
  (/\ request.script = "train_model"
   /\ evaluate.pc = "done"
   /\ evaluate.model.by \in Invocations
   /\ evaluate.model = train[evaluate.model.by].fitted
   /\ train[evaluate.model.by].results.type = "metrics"
   /\ evaluate.rows = train[evaluate.model.by].X_test
   /\ evaluate.feature_names = request.features) =>
    /\ evaluate.results.type = "metrics"
    /\ evaluate.results.metrics = train[evaluate.model.by].results.metrics

\* ---- C18
\* C18: the confusion matrix evaluate_model.py prints has one row and one
\* column per distinct label of the labeled data it was given, whatever the
\* model predicted.
C18_MatrixOverObservedLabels ==
  evaluate.results.type = "metrics" =>
    LET observed == {request.y[i] : i \in evaluate.rows}
    IN DOMAIN evaluate.results.metrics.confusionMatrix = observed \X observed

\* ---- C19
\* C19: a request to heartbeat, commands/pending, commands/{id}/acknowledge,
\* commands/{id}/complete or analytics/report is only sent once a
\* registration has succeeded, and carries the token of that registration
\* in its Authorization header, whatever operations of the client are
\* called in whatever order.
C19_OnlyAfterRegistration ==
  \A k \in 1..Len(sent) :
    sent[k].endpoint # "register" =>
      /\ sent[k].registered
      /\ sent[k].auth # 0
      /\ sent[k].auth = sent[k].token

\* ---- C20
\* The requests process_command sent to an endpoint for command id c.
SentFor(endpoint, c) ==
  {k \in 1..Len(sent) :
     /\ sent[k].endpoint = endpoint
     /\ sent[k].id = c
     /\ sent[k].from = "process_command"}

\* C20: for a command with an id handed to process_command, the call sends
\* at most one acknowledge and at most one complete request, the complete
\* request after the acknowledge request, and when the call has returned it
\* has sent exactly one of each: for a known and for an unknown type, when
\* the branch of the type raised, and whatever the acknowledgement's answer.
C20_AcknowledgeThenOneComplete ==
  \A c \in 1..MaxCommands :
    /\ Cardinality(SentFor("acknowledge", c)) <= 1
    /\ Cardinality(SentFor("complete", c)) <= 1
    /\ \A k \in SentFor("complete", c) : \E j \in SentFor("acknowledge", c) : j < k
    /\ c \in proc.ended =>
         /\ Cardinality(SentFor("acknowledge", c)) = 1
         /\ Cardinality(SentFor("complete", c)) = 1
    /\ (proc.command.id = c /\ proc.pc = "returned") => c \in proc.ended

\* Two commands have been through process_command: the first of an unknown
\* type, the second one whose branch raised after an acknowledgement that
\* failed.
C20_Witness ==
  /\ proc.ended = {1, 2}
  /\ proc.pc = "returned"
  /\ proc.failure = "AttributeError"
  /\ ~proc.acked
  /\ sent[1].endpoint = "acknowledge" /\ sent[2].endpoint = "complete"
  /\ sent[3].endpoint = "acknowledge" /\ sent[4].endpoint = "complete"

\* ---- C26
\* C26: a train_model.py run writes its model file only at line 68, which it
\* reaches from the metrics and cross-validation, which it reaches from the
\* fit, and the model written is the one it fit; it prints only after its
\* write; and the step at which a run fails before its write changes no
\* file and the run has printed nothing.
C26_WriteAfterMetrics ==
  [][\A r \in Runs :
       run[r].script = "train_model" =>
         /\ (run'[r].wrote # run[r].wrote \/ (lastWriter'[run[r].path] = r /\ lastWriter[run[r].path] # r)) =>
              /\ run[r].pc = "dump"
              /\ run[r].model = Fitted(run[r].model.kind, r)
              /\ store'[run[r].path] = run[r].model
         /\ (run'[r].pc = "dump" /\ run[r].pc # "dump") => run[r].pc = "evaluate"
         /\ (run'[r].pc = "evaluate" /\ run[r].pc # "evaluate") => run[r].pc = "fit"
         /\ run'[r].printed # run[r].printed =>
              /\ run[r].pc = "print"
              /\ run[r].path \in run[r].wrote
              /\ run'[r].printed.type = "metrics"
         /\ (run'[r].failure # "none" /\ run[r].failure = "none") =>
              /\ store' = store
              /\ run[r].wrote = {} /\ run'[r].wrote = {}
              /\ run'[r].printed = NoJson /\ run'[r].stdout = <<>>]_vars

\* A run failed in the fit, the metrics or the cross-validation on the path
\* that held a model before, and the path still holds that model; another
\* run wrote its model to the other path and printed its metrics.
C26_Witness ==
  \E r, q \in Runs :
    /\ Done(r) /\ run[r].script = "train_model" /\ run[r].path = PreexistingPath
    /\ run[r].failure = "ValueError"
    /\ store[PreexistingPath] = Preexisting
    /\ Done(q) /\ run[q].script = "train_model" /\ run[q].printed.type = "metrics"
    /\ store[run[q].path].by = q

\* ---- C27
\* What a stage prints when it has fit the model a name of models_updated
\* stands for, and the file save_models writes the model to.
TrainedLine(label) ==
  IF label = "archetype-classifier" THEN "Archetype classifier trained"
  ELSE "Content optimizer trained"

UpdatedModelPath(label) ==
  IF label = "archetype-classifier" THEN ArchetypePath ELSE ContentPath

\* C27: every name in models_updated of a result ml_training.py printed is
\* a model the run fit, and save_models of the run wrote its model file.
C27_UpdatedModelsWereSaved ==
  \A r \in Runs :
    (run[r].script = "ml_training" /\ run[r].printed.type = "results") =>
      \A k \in 1..Len(run[r].printed.body.models_updated) :
        LET label == run[r].printed.body.models_updated[k]
        IN /\ \E j \in 1..Len(run[r].stdout) : run[r].stdout[j] = TrainedLine(label)
           /\ UpdatedModelPath(label) \in run[r].wrote

\* ---- C29
\* C29: in a result ml_training.py prints without `error`,
\* patterns_discovered = improvement_opportunities + cross_neuron_learnings,
\* cross_neuron_learnings <= 10 and patterns_discovered <= 13, for an empty
\* batch and when discover_patterns failed too.
C29_PatternCountsAddUp ==
  \A r \in Runs :
    (run[r].script = "ml_training" /\ run[r].printed.type = "results"
       /\ ~run[r].printed.error) =>
      LET out == run[r].printed.body
      IN /\ out.patterns_discovered
              = out.improvement_opportunities + out.cross_neuron_learnings
         /\ out.cross_neuron_learnings \in 0..10
         /\ out.patterns_discovered \in 0..13

\* One run printed the counters of a batch of six verticals (the cap of 10
\* applies), another those of a failed discover_patterns.
C29_Witness ==
  \E r, q \in Runs :
    /\ run[r].printed.type = "results" /\ ~run[r].printed.error
    /\ run[r].printed.body.cross_neuron_learnings = 10
    /\ run[r].printed.body.patterns_discovered = 13
    /\ run[q].printed.type = "results" /\ ~run[q].printed.error
    /\ "discover_patterns" \in run[q].stageFailed
    /\ run[q].printed.body.patterns_discovered = 8

\* ---- C30
\* C30: is_registered is false when the client is made, becomes true only
\* on a 201 answer with a token, never goes back to false, holds only with
\* a token stored and installed as the Authorization header, and a
\* registration attempt that fails (the method returns False) leaves token,
\* header and is_registered as they were.
C30_RegisteredMeansTokenInstalled ==
  [][/\ (client'.built /\ ~client.built) => ~client'.is_registered
     /\ (client'.is_registered /\ ~client.is_registered) =>
          (client'.answer.status = StatusCreated /\ client'.answer.token # 0)
     /\ client.is_registered => client'.is_registered
     /\ client'.is_registered => (client'.token # 0 /\ client'.header = client'.token)
     /\ (Len(sent') > Len(sent) /\ sent'[Len(sent')].endpoint = "register"
           /\ ~RegisterReturns(client.kind, client'.answer)) =>
          /\ client'.token = client.token
          /\ client'.header = client.header
          /\ client'.is_registered = client.is_registered]_vars


\* C21 (as stated): a command whose type is in the table of its client is
\* completed with success true and no error message, and a command of any
\* other type with success false and the message "Unknown command type",
\* without raising.
C21_DispatchIsFixedTable ==
  proc.pc \in {"complete", "returned"} =>
    IF proc.command.type \in KnownTypes(client.kind)
    THEN proc.success /\ proc.error = "-"
    ELSE ~proc.success /\ proc.error = "Unknown command type" /\ proc.failure = "none"

\* The commands of a known type whose branch does not succeed: in
\* python-example the branches that read a null commandData, in python-neuron
\* a run_task whose task_type is not one of the two known.
BranchFails(kind, command) ==
  \/ /\ kind = "python-example"
     /\ command.type \in {"config_update", "run_task"}
     /\ command.data = "null"
  \/ /\ kind = "python-neuron"
     /\ command.type = "run_task"
     /\ command.data # "task"

\* C21 (amended): a command of a type outside the table is completed with
\* success false and "Unknown command type", without raising; a command of a
\* type in the table is completed with success true and no error message
\* unless its branch fails on the commandData, and then with success false and
\* the text of the failure; the completion request carries that outcome.
C21_DispatchByTypeAndData ==
  proc.pc \in {"complete", "returned"} =>
    LET c == proc.command
        known == c.type \in KnownTypes(client.kind)
    IN  /\ ~known => (~proc.success /\ proc.error = "Unknown command type"
                        /\ proc.failure = "none")
        /\ (known /\ ~BranchFails(client.kind, c)) =>
             (proc.success /\ proc.error = "-" /\ proc.failure = "none")
        /\ (known /\ BranchFails(client.kind, c)) =>
             /\ ~proc.success
             /\ proc.error = (IF c.data = "null" THEN "exception text"
                              ELSE "Unknown task type")
             /\ proc.failure = (IF client.kind = "python-example"
                                THEN "AttributeError" ELSE "none")
        /\ proc.pc = "returned" =>
             \E k \in 1..Len(sent) :
               /\ sent[k].endpoint = "complete"
               /\ sent[k].from = "process_command"
               /\ sent[k].id = c.id
               /\ sent[k].success = proc.success
               /\ sent[k].error = proc.error

\* A run_task of python-neuron without a known task_type was completed with
\* success false, and one with a known task_type with success true.
C21_Witness ==
  /\ client.kind = "python-neuron"
  /\ proc.pc = "returned"
  /\ proc.command.type = "run_task"
  /\ proc.command.data = "object"
  /\ \E k \in 1..Len(sent) :
       /\ sent[k].endpoint = "complete" /\ sent[k].from = "process_command"
       /\ sent[k].id = proc.command.id
       /\ ~sent[k].success /\ sent[k].error = "Unknown task type"
  /\ \E k \in 1..Len(sent) :
       /\ sent[k].endpoint = "complete" /\ sent[k].from = "process_command"
       /\ sent[k].id # proc.command.id
       /\ sent[k].success


\* C22: start() attempts the registration exactly once, and a loop whose
\* request failed (another status, an exception or a timeout inside the
\* method) either has ended or sleeps at least its full interval, its sleep
\* never left early, before it sends again; only a thread at its call sends.
C22_NoRetryWithinInterval ==
  [][/\ node'.attempts <= 1
     /\ node'.pc \notin {"new", "register"} => node'.attempts = 1
     /\ \A t \in Loops :
          /\ (threads[t].pc = "call" /\ threads'[t].pc # "call"
                /\ wire'.outcome \in {"error", "null"}) =>
               \/ threads'[t].pc = "dead"
               \/ /\ threads'[t].pc = "sleep"
                  /\ threads'[t].wake >= now + Interval(t)
          /\ (threads[t].pc = "sleep" /\ threads'[t].pc # "sleep") =>
               now >= threads[t].wake
          /\ (wire' # wire /\ wire'.from = t) => threads[t].pc \in {"call", "handle"}]_vars

\* A loop whose last request failed is still asleep after five seconds, one
\* unit before its interval has passed, and nothing was sent since.
C22_Witness ==
  \E t \in Loops :
    /\ wire.from = t /\ wire.outcome = "error"
    /\ threads[t].pc = "sleep"
    /\ now > 0 /\ now = threads[t].wake - 1
    /\ node.running /\ node.attempts = 1

\* C23 (as stated): while the running flag is true no started loop has
\* ended, whatever its calls came back with, and a step of one loop leaves
\* the other two as they were.
C23_LoopsAreIndependent ==
  [][\A t \in Loops :
       /\ (node'.running /\ threads'[t].pc # "none") =>
            threads'[t].pc \notin {"dead", "done"}
       /\ (threads[t].pc # "none" /\ threads'[t] # threads[t]) =>
            \A u \in Loops \ {t} : threads'[u] = threads[u]]_vars

\* C24 (as stated): once stop() / _shutdown() has returned every loop has
\* ended and the neuron sends nothing more.
C24_StoppedMeansLoopsEnded ==
  [][/\ node'.pc = "stopped" => \A t \in Loops : threads'[t].pc \in {"done", "dead"}
     /\ node.pc = "stopped" => wire' = wire]_vars

\* C25: after a registration that returned False start() has set no running
\* flag, started no thread and sent nothing but the registration; a running
\* flag or a thread exists only after the one registration returned True.
C25_NoLoopWithoutRegistration ==
  /\ node.pc = "failed" =>
       /\ ~node.running /\ ~node.returned
       /\ \A t \in Loops : threads[t].pc = "none"
       /\ wire.endpoint = "register" /\ wire.from = "start"
  /\ (node.running \/ \E t \in Loops : threads[t].pc # "none") =>
       (node.returned /\ node.attempts = 1)

\* start() of python-neuron has ended on a failed registration, and time has
\* passed since.
C25_Witness ==
  /\ node.kind = "python-neuron"
  /\ node.pc = "failed" /\ node.attempts = 1
  /\ wire.endpoint = "register" /\ wire.outcome = "error"
  /\ now = MaxTime

\* C28 (as stated): every heartbeat and analytics payload reports a request
\* total equal to the sum of its successful and failed counts.
C28_TotalIsSumOfOutcomes ==
  wire.endpoint \in {"heartbeat", "analytics"} =>
    wire.total = wire.successful + wire.failed

====
